---------------------------- MODULE Spec2Model ----------------------------
(***************************************************************************)
(* A model of rough-py's sketch engine: options resolution (core.py,       *)
(* generator.py), the seeded random source (math.py), and the line, chain  *)
(* and multi-point-curve generators with their pattern fills (renderer.py, *)
(* fillers/).                                                              *)
(*                                                                         *)
(* Numbers.  Python floats are modelled in fixed point: a real v is the    *)
(* integer v * Milli (three decimal places), products are rescaled by      *)
(* Mul.  A return value of Random.next(), state / 2147483647, is kept as   *)
(* its numerator (the state) and read in 1024ths by Frac.  An optional     *)
(* Python value is a sequence: <<>> is None and <<v>> is the value v.      *)
(***************************************************************************)
EXTENDS Integers, Sequences, FiniteSets, TLC

VARIABLES
    config,          \* Config.options: None or the keywords of its Options(...)
    defaultOptions,  \* RoughGenerator.defaultOptions
    local,           \* the last call's options: None or the keywords of Options(...)
    ro,              \* None, or the ResolvedOptions the last call of _o returned
    phase,           \* "new" before RoughGenerator.__init__, then "ready"
    rng,             \* None, or a Random object [seed, state]
    ret,             \* None, or the numerator of the last value next() returned
    draws,           \* number of next() calls made on rng
    py,              \* position of Python's global random stream (random.random)
    req,             \* None, or the last draw call: [shape, args, kw]
    drawable,        \* None, or the Drawable the last draw call returned
    raised,          \* "", or the exception the last draw call raised
    fillLines,       \* None, or the lines the last polygon_hachure_lines call returned
    fillersCache,    \* filler._fillers_cache: the strategy class kept under each name
    filler,          \* None, or the strategy class the last getFiller call returned
    matrix,          \* RoughCanvas.ctx._matrix: the 3x3 transform, row-major, in Milli
    draw_calls,      \* RoughCanvas.draw_calls: the Drawables drawn, in call order
    transforms,      \* number of ctx transform calls since the last resetTransform
    z_indexes,       \* the z_index kept with each entry of draw_calls
    svg,             \* None, or the elements of the last as_svg output, in order
    sweep,           \* None, or the angular sweep loop of the arc being generated
    absolute         \* None, or what the last toAbsolute call returned

optVars == <<config, defaultOptions, local, ro, phase>>
rndVars == <<rng, ret, draws>>
fillVars == <<fillLines, fillersCache, filler>>
drawVars == <<req, drawable, raised, fillVars>>
canvasVars == <<matrix, draw_calls, transforms, z_indexes, svg>>
pathVars == <<sweep, absolute>>
vars == <<optVars, rndVars, py, drawVars, canvasVars, pathVars>>

None == <<>>
Some(v) == <<v>>
Val(x) == x[1]

Milli == 10 * 100

\* The product of two fixed-point numbers.
Mul(a, b) == (a * b) \div Milli

\* The identity matrix FakeCanvasContext starts from (canvas.py 24-25).
Identity == <<Milli, 0, 0, 0, Milli, 0, 0, 0, Milli>>

\* min, max and abs of Python.
Min2(a, b) == IF a < b THEN a ELSE b
Max2(a, b) == IF a > b THEN a ELSE b
Abs(a) == IF a < 0 THEN -a ELSE a

\* Python truthiness of an optional string ("" and None are falsy).
Truthy(x) == x # None /\ Val(x) # ""

(***************************************************************************)
(* core.py: Options and ResolvedOptions                                    *)
(***************************************************************************)

\* The keyword parameters of Options.__init__ that the model keeps.
Params ==
    {"maxRandomnessOffset", "roughness", "bowing", "stroke", "strokeWidth",
     "curveFitting", "curveTightness", "curveStepCount", "fill", "fillStyle", "fillWeight", "hachureAngle",
     "hachureGap", "gradientSmoothness", "seed", "strokeLineDash",
     "disableMultiStroke", "disableMultiStrokeFill", "preserveVertices",
     "dashOffset", "dashGap", "zigzagOffset", "fillShapeRoughnessGain"}

\* A call Options(k1=v1, ...): the parameters not given default to None.
Kw(given) == [p \in Params |-> IF p \in DOMAIN given THEN given[p] ELSE None]

\* Options.__init__: the attribute dictionary of the new object.  The
\* gradientSmoothness argument is stored under the attribute name
\* "gradentSmoothness"; seed is stored as 0 when it is None.
Options(kw) ==
    [a \in (Params \ {"gradientSmoothness"}) \cup {"gradentSmoothness"} |->
        IF a = "gradentSmoothness" THEN kw["gradientSmoothness"]
        ELSE IF a = "seed" THEN (IF kw["seed"] # None THEN kw["seed"] ELSE Some(0))
        ELSE kw[a]]

\* for k, v in src.__dict__.items(): if v is not None: setattr(dst, k, v)
CopyNonNone(dst, src) ==
    [a \in DOMAIN dst \cup DOMAIN src |->
        IF a \in DOMAIN src /\ src[a] # None THEN src[a] ELSE dst[a]]

\* core.py 220-234: the three visibility rules at the end of
\* ResolvedOptions.__init__.
CoreVisibility(o) ==
    LET o1 == IF o.strokeWidth = Some(0) THEN [o EXCEPT !.stroke = Some("none")] ELSE o
        o2 == IF o1.stroke \in {None, Some("none")}
                 /\ o1.fill \in {None, Some(""), Some("none")}
              THEN [o1 EXCEPT !.stroke = Some("#000")] ELSE o1
        o3 == IF o2.fill \in {None, Some("none"), Some("")}
                 /\ o2.stroke \in {None, Some(""), Some("none")}
              THEN [o2 EXCEPT !.fill = Some("#0f0")] ELSE o2
    IN o3

\* ResolvedOptions(): every argument None and seed 0, then the library
\* constants, then the visibility rules.
ResolvedOptions ==
    LET base == Options(Kw([seed |-> Some(0)]))
        dflt == [a \in DOMAIN base \cup {"gradientSmoothness"} |->
                   CASE a = "gradientSmoothness" -> Some(1)
                     [] a = "maxRandomnessOffset" -> Some(2 * Milli)
                     [] a = "roughness" -> Some(1 * Milli)
                     [] a = "bowing" -> Some(2 * Milli)
                     [] a = "stroke" -> Some("none")
                     [] a = "strokeWidth" -> Some(2 * Milli)
                     [] a = "curveFitting" -> Some(950)
                     [] a = "curveTightness" -> Some(Milli \div 10)
                     [] a = "curveStepCount" -> Some(9)
                     [] a = "fillStyle" -> Some("hachure")
                     [] a = "fillWeight" -> Some(1 * Milli)
                     [] a = "hachureAngle" -> Some(-41)
                     [] a = "hachureGap" -> Some(3500)
                     [] a = "strokeLineDash" -> Some(<<>>)
                     [] a = "disableMultiStroke" -> Some(FALSE)
                     [] a = "disableMultiStrokeFill" -> Some(FALSE)
                     [] a = "preserveVertices" -> Some(FALSE)
                     [] a = "dashOffset" -> Some(0 - Milli)
                     [] a = "dashGap" -> Some(0 - Milli)
                     [] a = "zigzagOffset" -> Some(0 - Milli)
                     [] a = "fillShapeRoughnessGain" -> Some(800)
                     [] OTHER -> base[a]]
    IN CoreVisibility(dflt)

(***************************************************************************)
(* math.py: Random, and Python's own random.random()                       *)
(***************************************************************************)

Modulus == 2147483647
Multiplier == 48271

\* Python's global generator is not seeded by the library: its stream is
\* unknown to the program.  The model keeps a position py in a stream of
\* PyPeriod values; the initial position is arbitrary.  PyValue is the
\* numerator (over Modulus) of the float that random.random() returns there.
PyPeriod == 5
PyValue(p) == (((p * 397) + 251) % 1024) * 2097152 + 1
PyAdvance(p) == (p + 1) % PyPeriod

\* (s * 48271) % 2147483647 on Python integers, computed without leaving
\* 32 bits: 2147483647 = 48271 * 44488 + 3399 (Schrage's decomposition).
\* Python's % gives a result in 0 .. 2147483646 for a negative s as well.
LcgStep(s) ==
    LET m == s % Modulus
        q == Modulus \div Multiplier
        r == Modulus % Multiplier
        t == Multiplier * (m % q) - r * (m \div q)
    IN IF t < 0 THEN t + Modulus ELSE t

\* Random(seed)
Random(seed) == [seed |-> seed, state |-> seed]

\* Random.next() on generator g with Python's stream at p: the generator and
\* stream position afterwards, and the numerator of the returned float.
RandomNext(g, p) ==
    IF g.state = 0
    THEN [py |-> PyAdvance(p), g |-> g, num |-> PyValue(p)]
    ELSE [py |-> p, g |-> [g EXCEPT !.state = LcgStep(g.state)],
          num |-> LcgStep(g.state)]

(***************************************************************************)
(* math.cos, math.sin, math.radians in fixed point                         *)
(***************************************************************************)

Pi == (355 * Milli) \div 113
TwoPi == (710 * Milli) \div 113
HalfPi == (355 * Milli) \div 226

\* math.radians(deg) for whole degrees, in Milli.
Radians(deg) == (deg * 355 * Milli) \div (113 * 180)

\* Taylor polynomials on [0, pi/4], argument and value in Milli.
SinSmall(x) ==
    LET x2 == Mul(x, x)
    IN x - (Mul(x, x2) \div 6) + (Mul(Mul(x, x2), x2) \div 120)
CosSmall(x) ==
    LET x2 == Mul(x, x)
    IN Milli - (x2 \div 2) + (Mul(x2, x2) \div 24) - (Mul(Mul(x2, x2), x2) \div 720)

\* On [0, pi/2].
SinQuarter(x) == IF 2 * x <= HalfPi THEN SinSmall(x) ELSE CosSmall(HalfPi - x)
CosQuarter(x) == IF 2 * x <= HalfPi THEN CosSmall(x) ELSE SinSmall(HalfPi - x)

\* math.sin(a), math.cos(a) for any angle a in Milli radians.
Sin(a) ==
    LET t == a % TwoPi
    IN IF t <= HalfPi THEN SinQuarter(t)
       ELSE IF t <= Pi THEN SinQuarter(Pi - t)
       ELSE IF t <= Pi + HalfPi THEN -SinQuarter(t - Pi)
       ELSE -SinQuarter(TwoPi - t)
Cos(a) ==
    LET t == a % TwoPi
    IN IF t <= HalfPi THEN CosQuarter(t)
       ELSE IF t <= Pi THEN -CosQuarter(Pi - t)
       ELSE IF t <= Pi + HalfPi THEN -CosQuarter(t - Pi)
       ELSE CosQuarter(TwoPi - t)

(***************************************************************************)
(* renderer.py: the random offsets                                         *)
(***************************************************************************)

\* x if x is not None else d
OrElse(x, d) == IF x = None THEN d ELSE Val(x)

\* The float numerator/2147483647 in 1024ths.
Frac(num) == num \div 2097152

\* Integer square root by bisection: the largest r with r * r <= n.
RECURSIVE IsqrtIn(_, _, _)
IsqrtIn(n, lo, hi) ==
    IF lo >= hi THEN lo
    ELSE IF ((lo + hi + 1) \div 2) * ((lo + hi + 1) \div 2) <= n
         THEN IsqrtIn(n, (lo + hi + 1) \div 2, hi)
         ELSE IsqrtIn(n, lo, ((lo + hi + 1) \div 2) - 1)
Isqrt(n) == IsqrtIn(n, 0, 46340)

\* math.sqrt((ax - bx) ** 2 + (ay - by) ** 2) for coordinates in Milli,
\* computed on tenths of a unit to stay within 32 bits.
Distance(ax, ay, bx, by) ==
    Isqrt(((ax - bx) \div 100) * ((ax - bx) \div 100)
          + ((ay - by) \div 100) * ((ay - by) \div 100)) * 100

\* The statements of a function run in order, each once.  The model binds
\* the result of a statement with { e(x) : x \in {v} }, which computes v and
\* then e(x); The picks the element of that singleton set.
The(S) == CHOOSE v \in S : TRUE

\* The random context of one options object o: c.g is o._randgen (None until
\* the first use) and c.py is the position of Python's global stream.
\* randomFloat(o): creates Random(o.seed) on first use, then calls next().
randomFloat(o, c) ==
    The({ [num |-> n.num, c |-> [py |-> n.py, g |-> Some(n.g)]] :
            n \in {RandomNext(IF c.g = None THEN Random(Val(o.seed)) ELSE Val(c.g), c.py)} })

\* n successive calls of randomFloat(o): the context afterwards and the
\* numerators returned, in call order (the first n \div 2 calls, then the
\* others).
RECURSIVE DrawN(_, _, _)
DrawN(o, c, n) ==
    IF n = 0 THEN [c |-> c, nums |-> <<>>]
    ELSE IF n = 1
    THEN The({ [c |-> f.c, nums |-> <<f.num>>] : f \in {randomFloat(o, c)} })
    ELSE The({ The({ [c |-> b.c, nums |-> a.nums \o b.nums] :
                       b \in {DrawN(o, a.c, n - (n \div 2))} }) :
                 a \in {DrawN(o, c, n \div 2)} })

\* Mutant of offsetRange: the gain is ignored.
offsetRange_NoGain(minv, maxv, o, gain, num) ==
    Mul(OrElse(o.roughness, Milli), ((Frac(num) * (maxv - minv)) \div 1024) + minv)

\* offsetRange(minv, maxv, o, gain) given the numerator num that its call of
\* randomFloat(o) returned:  r * gain * (random * (maxv - minv) + minv)
offsetRange(minv, maxv, o, gain, num) ==
    Mul(Mul(OrElse(o.roughness, Milli), gain),
        ((Frac(num) * (maxv - minv)) \div 1024) + minv)

\* offsetOpt(x, o, gain)
offsetOpt(x, o, gain, num) == offsetRange(-x, x, o, gain, num)

(***************************************************************************)
(* renderer.py: lineOps, doubleLine, linearPath, polygon, rectangle        *)
(***************************************************************************)

Op(op, data) == [op |-> op, data |-> data]
OpSet(type, ops) == [type |-> type, ops |-> ops]

\* The roughness gain of lineOps (renderer.py 913-917) for a length in Milli.
roughnessGain(length) ==
    IF length > 500 * Milli THEN 400
    ELSE IF length >= 200 * Milli
         THEN 1233 - ((16668 * (length \div 100)) \div 100000)
         ELSE Milli

\* moff of lineOps (renderer.py 918-921): maxRandomnessOffset, reduced for a
\* short segment.
lineOffset(x1, y1, x2, y2, o, length) ==
    IF (OrElse(o.maxRandomnessOffset, 2 * Milli) \div 100)
         * (OrElse(o.maxRandomnessOffset, 2 * Milli) \div 100) * 100
       > ((x1 - x2) \div 100) * ((x1 - x2) \div 100)
         + ((y1 - y2) \div 100) * ((y1 - y2) \div 100)
    THEN length \div 10
    ELSE OrElse(o.maxRandomnessOffset, 2 * Milli)

\* Mutant of lineOps: preserveVertices is ignored for the end point.
lineOps_JitteredEnd(x1, y1, x2, y2, o, overlay, c) ==
    The({ LET pv == Val(o.preserveVertices)
              amp == IF overlay THEN moff \div 2 ELSE moff
              u == d.nums
              k == IF pv THEN 3 ELSE 5
              divergePoint == 200 + ((Frac(u[1]) * 200) \div 1024)
              bowv == OrElse(o.bowing, Milli)
              midDispX == offsetOpt((Mul(bowv, moff) * ((y2 - y1) \div 100)) \div 2000,
                                    o, gain, u[2])
              midDispY == offsetOpt((Mul(bowv, moff) * ((x1 - x2) \div 100)) \div 2000,
                                    o, gain, u[3])
              rnd(i) == offsetOpt(amp, o, gain, u[i])
          IN [c |-> d.c,
              ops |-> << Op("move", IF pv THEN <<x1, y1>>
                                          ELSE <<x1 + rnd(4), y1 + rnd(5)>>),
                         Op("bcurveTo",
                            << midDispX + x1 + Mul(x2 - x1, divergePoint) + rnd(k + 1),
                               midDispY + y1 + Mul(y2 - y1, divergePoint) + rnd(k + 2),
                               midDispX + x1 + Mul(2 * (x2 - x1), divergePoint) + rnd(k + 3),
                               midDispY + y1 + Mul(2 * (y2 - y1), divergePoint) + rnd(k + 4),
                               x2 + rnd(k + 5), y2 + rnd(k + 6) >>) >>] :
            gain \in {roughnessGain(Distance(x1, y1, x2, y2))},
            moff \in {lineOffset(x1, y1, x2, y2, o, Distance(x1, y1, x2, y2))},
            d \in {DrawN(o, c, IF Val(o.preserveVertices) THEN 9 ELSE 11)} })

\* lineOps(x1, y1, x2, y2, o, move=True, overlay) in random context c: one
\* pass, a move and a bcurveTo.  The draws are made in the order of the
\* code: divergePoint, midDispX, midDispY, the start point (unless
\* preserveVertices), the two control points, the end point (unless
\* preserveVertices).
lineOps(x1, y1, x2, y2, o, overlay, c) ==
    The({ LET pv == Val(o.preserveVertices)
              amp == IF overlay THEN moff \div 2 ELSE moff
              u == d.nums
              k == IF pv THEN 3 ELSE 5
              divergePoint == 200 + ((Frac(u[1]) * 200) \div 1024)
              bowv == OrElse(o.bowing, Milli)
              midDispX == offsetOpt((Mul(bowv, moff) * ((y2 - y1) \div 100)) \div 2000,
                                    o, gain, u[2])
              midDispY == offsetOpt((Mul(bowv, moff) * ((x1 - x2) \div 100)) \div 2000,
                                    o, gain, u[3])
              rnd(i) == offsetOpt(amp, o, gain, u[i])
          IN [c |-> d.c,
              ops |-> << Op("move", IF pv THEN <<x1, y1>>
                                          ELSE <<x1 + rnd(4), y1 + rnd(5)>>),
                         Op("bcurveTo",
                            << midDispX + x1 + Mul(x2 - x1, divergePoint) + rnd(k + 1),
                               midDispY + y1 + Mul(y2 - y1, divergePoint) + rnd(k + 2),
                               midDispX + x1 + Mul(2 * (x2 - x1), divergePoint) + rnd(k + 3),
                               midDispY + y1 + Mul(2 * (y2 - y1), divergePoint) + rnd(k + 4),
                               IF pv THEN x2 ELSE x2 + rnd(k + 5),
                               IF pv THEN y2 ELSE y2 + rnd(k + 6) >>) >>] :
            gain \in {roughnessGain(Distance(x1, y1, x2, y2))},
            moff \in {lineOffset(x1, y1, x2, y2, o, Distance(x1, y1, x2, y2))},
            d \in {DrawN(o, c, IF Val(o.preserveVertices) THEN 7 ELSE 11)} })

\* Mutant of doubleLine: the fill flag is ignored, disableMultiStroke
\* governs fill segments too.
doubleLine_OutlineFlagOnly(x1, y1, x2, y2, o, filling, c) ==
    The({ IF Val(o.disableMultiStroke) THEN first
          ELSE The({ [c |-> second.c, ops |-> first.ops \o second.ops] :
                       second \in {lineOps(x1, y1, x2, y2, o, TRUE, first.c)} }) :
            first \in {lineOps(x1, y1, x2, y2, o, FALSE, c)} })

\* doubleLine(x1, y1, x2, y2, o, filling): the first pass, and the second
\* unless singleStroke.
doubleLine(x1, y1, x2, y2, o, filling, c) ==
    The({ IF (IF filling THEN Val(o.disableMultiStrokeFill) ELSE Val(o.disableMultiStroke))
          THEN first
          ELSE The({ [c |-> second.c, ops |-> first.ops \o second.ops] :
                       second \in {lineOps(x1, y1, x2, y2, o, TRUE, first.c)} }) :
            first \in {lineOps(x1, y1, x2, y2, o, FALSE, c)} })

\* doubleLine over a list of segments <<p, q>>, in order.
RECURSIVE doubleLines(_, _, _, _)
doubleLines(segs, o, filling, c) ==
    IF segs = <<>> THEN [c |-> c, ops |-> <<>>]
    ELSE The({ The({ [c |-> t.c, ops |-> h.ops \o t.ops] :
                       t \in {doubleLines(Tail(segs), o, filling, h.c)} }) :
                 h \in {doubleLine(segs[1][1][1], segs[1][1][2],
                                   segs[1][2][1], segs[1][2][2], o, filling, c)} })

\* The segments linearPath(points, close, o) sketches (renderer.py 90-105).
PathSegments(points, close) ==
    IF Len(points) > 2
    THEN [i \in 1 .. Len(points) - 1 |-> <<points[i], points[i + 1]>>]
         \o (IF close THEN << <<points[Len(points)], points[1]>> >> ELSE <<>>)
    ELSE IF Len(points) = 2 THEN << <<points[1], points[2]>> >>
    ELSE <<>>

\* linearPath(points, close, o)
linearPath(points, close, o, c) ==
    The({ [c |-> r.c, set |-> OpSet("path", r.ops)] :
            r \in {doubleLines(PathSegments(points, close), o, FALSE, c)} })

\* polygon(points, o)
polygon(points, o, c) == linearPath(points, TRUE, o, c)

\* The corner list of rectangle(x, y, width, height, o).
RectanglePoints(x, y, w, h) == << <<x, y>>, <<x + w, y>>, <<x + w, y + h>>, <<x, y + h>> >>

\* rectangle(x, y, width, height, o)
rectangle(x, y, w, h, o, c) == polygon(RectanglePoints(x, y, w, h), o, c)

\* line(x1, y1, x2, y2, o)
line(x1, y1, x2, y2, o, c) ==
    The({ [c |-> r.c, set |-> OpSet("path", r.ops)] :
            r \in {doubleLine(x1, y1, x2, y2, o, FALSE, c)} })

(***************************************************************************)
(* renderer.py: curveOps, curveWithOffset, cloneOptionsSeed, curve         *)
(***************************************************************************)

\* The Catmull-Rom segment i of curveOps (renderer.py 1010-1027).
curveSegment(points, i, s) ==
    Op("bcurveTo",
       << points[i][1] + (Mul(s, points[i + 1][1] - points[i - 1][1]) \div 6),
          points[i][2] + (Mul(s, points[i + 1][2] - points[i - 1][2]) \div 6),
          points[i + 1][1] + (Mul(s, points[i][1] - points[i + 2][1]) \div 6),
          points[i + 1][2] + (Mul(s, points[i][2] - points[i + 2][2]) \div 6),
          points[i + 1][1], points[i + 1][2] >>)

\* curveOps(points, closePoint, o): closePoint is None or Some(point).
curveOps(points, closePoint, o, c) ==
    IF Len(points) > 3
    THEN The({ IF closePoint # None
               THEN The({ [c |-> cl.c,
                           ops |-> body \o
                              <<Op("lineTo",
                                   << Val(closePoint)[1]
                                        + offsetOpt(OrElse(o.maxRandomnessOffset, 2 * Milli),
                                                    o, Milli, cl.nums[1]),
                                      Val(closePoint)[2]
                                        + offsetOpt(OrElse(o.maxRandomnessOffset, 2 * Milli),
                                                    o, Milli, cl.nums[2]) >>)>>] :
                            cl \in {DrawN(o, c, 2)} })
               ELSE [c |-> c, ops |-> body] :
                 body \in { <<Op("move", points[2])>> \o
                            [i \in 1 .. Len(points) - 3 |->
                                curveSegment(points, i + 1, Milli - OrElse(o.curveTightness, 0))] } })
    ELSE IF Len(points) = 3
    THEN [c |-> c,
          ops |-> << Op("move", points[2]),
                     Op("bcurveTo", <<points[2][1], points[2][2], points[3][1],
                                      points[3][2], points[3][1], points[3][2]>>) >>]
    ELSE IF Len(points) = 2
    THEN lineOps(points[1][1], points[1][2], points[2][1], points[2][2], o, TRUE, c)
    ELSE [c |-> c, ops |-> <<>>]

\* curveWithOffset without the repeated first and last point: the moved
\* points go to curveOps as they are.
curveWithOffset_NoDuplicates(points, offset, o, c) ==
    IF points = <<>> THEN [c |-> c, ops |-> <<>>]
    ELSE The({ LET off(i) == offsetOpt(offset, o, Milli, d.nums[i])
               IN curveOps([i \in 1 .. Len(points) |->
                              <<points[i][1] + off(2 * i + 1), points[i][2] + off(2 * i + 2)>>],
                           None, o, d.c) :
                 d \in {DrawN(o, c, 2 * (Len(points) + 1))} })

\* curveWithOffset(points, offset, o): every point, the first and the last
\* included, is moved by two offsetOpt draws; the first point is taken twice
\* (with fresh draws) and the last is repeated.
curveWithOffset(points, offset, o, c) ==
    IF points = <<>> THEN [c |-> c, ops |-> <<>>]
    ELSE The({ LET n == Len(points)
                   off(i) == offsetOpt(offset, o, Milli, d.nums[i])
                   moved(i) == <<points[i][1] + off(2 * i + 1), points[i][2] + off(2 * i + 2)>>
               IN curveOps(<< <<points[1][1] + off(1), points[1][2] + off(2)>>, moved(1) >>
                             \o [i \in 1 .. n - 1 |-> moved(i + 1)]
                             \o (IF n > 1 THEN <<moved(n)>> ELSE <<>>),
                           None, o, d.c) :
                 d \in {DrawN(o, c, 2 * (Len(points) + 1))} })

\* cloneOptionsSeed(o): the copy has seed + 1 and no _randgen of its own.
cloneOptionsSeed(o) == [o EXCEPT !.seed = Some(Val(o.seed) + 1)]

\* curve(points, o) for a single list of points: the first pass with o, the
\* second (unless disableMultiStroke) with cloneOptionsSeed(o).
curve(points, o, c) ==
    IF points = <<>> THEN [c |-> c, set |-> OpSet("path", <<>>)]
    ELSE The({ IF Val(o.disableMultiStroke)
               THEN [c |-> under.c, set |-> OpSet("path", under.ops)]
               ELSE The({ [c |-> [py |-> over.c.py, g |-> under.c.g],
                           set |-> OpSet("path", under.ops \o over.ops)] :
                            over \in {curveWithOffset(
                                        points,
                                        Mul(1500, Milli + Mul(OrElse(o.roughness, Milli), 220)),
                                        cloneOptionsSeed(o),
                                        [py |-> under.c.py, g |-> None])} }) :
                 under \in {curveWithOffset(
                              points,
                              Mul(Milli, Milli + Mul(OrElse(o.roughness, Milli), 200)),
                              o, c)} })

(***************************************************************************)
(* renderer.py: generateEllipseParams, computeEllipsePoints,               *)
(* ellipseWithParams, ellipse                                              *)
(***************************************************************************)

\* generateEllipseParams(width, height, o): two draws, for rx and for ry.
generateEllipseParams(width, height, o, c) ==
    The({ LET cstep == OrElse(o.curveStepCount, 9)
              hw == (width \div 2) \div 100
              hh == (height \div 2) \div 100
              psq == Isqrt(TwoPi * Isqrt((hw * hw + hh * hh) \div 2) * 100)
              rx == Abs(width \div 2)
              ry == Abs(height \div 2)
              curveFit == Milli - OrElse(o.curveFitting, 950)
          IN [c |-> d.c,
              ep |-> [rx |-> rx + offsetOpt(Mul(rx, curveFit), o, Milli, d.nums[1]),
                      ry |-> ry + offsetOpt(Mul(ry, curveFit), o, Milli, d.nums[2]),
                      increment |-> TwoPi \div Max2(cstep, (cstep * psq) \div 14142)]] :
            d \in {DrawN(o, c, 2)} })

\* The angles a loop "while angle < end (or <= end): ...; angle += inc"
\* visits, for inc > 0: angle, angle + inc, ... while the test holds.
LoopAngles(angle, end, inc, inclusive) ==
    [i \in 1 .. (IF (IF inclusive THEN angle <= end ELSE angle < end)
                 THEN (((IF inclusive THEN end ELSE end - 1) - angle) \div inc) + 1
                 ELSE 0) |-> angle + (i - 1) * inc]

\* The point at angle a of the ellipse, its radii scaled by k: the
\* expression (cx + k * rx * math.cos(a), cy + k * ry * math.sin(a)).
EllipsePoint(cx, cy, rx, ry, k, a) ==
    <<cx + Mul(Mul(k, rx), Cos(a)), cy + Mul(Mul(k, ry), Sin(a))>>

\* computeEllipsePoints(increment, cx, cy, rx, ry, offset, overlap, o):
\* allPoints and corePoints.  With roughness 0 no random draw is made.
computeEllipsePoints(increment, cx, cy, rx, ry, offset, overlap, o, c) ==
    IF Val(o.roughness) = 0
    THEN The({ LET core == [i \in 1 .. Len(as) |-> EllipsePoint(cx, cy, rx, ry, Milli, as[i])]
               IN [c |-> c,
                   core |-> core,
                   all |-> <<EllipsePoint(cx, cy, rx, ry, Milli, -(increment \div 4))>>
                           \o core
                           \o << EllipsePoint(cx, cy, rx, ry, Milli, 0),
                                 EllipsePoint(cx, cy, rx, ry, Milli, increment \div 4) >>] :
                 as \in {LoopAngles(0, TwoPi, increment \div 4, TRUE)} })
    ELSE The({ The({ The({ The({
            LET off(i) == offsetOpt(offset, o, Milli, d.nums[i])
                jit(i, p) == <<off(i) + p[1], off(i + 1) + p[2]>>
                k == 2 * Len(as)
                first == EllipsePoint(cx, cy, rx, ry, 900, radOffset - increment)
                core == [i \in 1 .. Len(as) |->
                            jit(2 * i - 1, EllipsePoint(cx, cy, rx, ry, Milli, as[i]))]
            IN [c |-> d.c,
                core |-> core,
                all |-> << << offsetOpt(offset, o, Milli, r0.nums[2]) + first[1],
                              offsetOpt(offset, o, Milli, r0.nums[3]) + first[2] >> >>
                        \o core
                        \o << jit(k + 1, EllipsePoint(cx, cy, rx, ry, Milli,
                                                      radOffset + TwoPi + (overlap \div 2))),
                              jit(k + 3, EllipsePoint(cx, cy, rx, ry, 980, radOffset + overlap)),
                              jit(k + 5, EllipsePoint(cx, cy, rx, ry, 900,
                                                      radOffset + (overlap \div 2))) >>] :
                  d \in {DrawN(o, r0.c, 2 * Len(as) + 6)} }) :
                as \in {LoopAngles(radOffset, TwoPi + radOffset - 10, increment, FALSE)} }) :
              radOffset \in {offsetOpt(500, o, Milli, r0.nums[1]) - HalfPi} }) :
            r0 \in {DrawN(o, c, 3)} })

\* ellipseWithParams with the second pass made whenever disableMultiStroke
\* is not set, roughness 0 included.
ellipseWithParams_MultiStrokeOnly(x, y, o, ep, c) ==
    The({ The({ The({
        IF ~Val(o.disableMultiStroke)
        THEN The({ The({ [c |-> o2.c, set |-> OpSet("path", o1.ops \o o2.ops),
                          core |-> p1.core] :
                           o2 \in {curveOps(p2.all, None, o, p2.c)} }) :
                     p2 \in {computeEllipsePoints(ep.increment, x, y, ep.rx, ep.ry,
                                                  1500, 0, o, o1.c)} })
        ELSE [c |-> o1.c, set |-> OpSet("path", o1.ops), core |-> p1.core] :
              o1 \in {curveOps(p1.all, None, o, p1.c)} }) :
            p1 \in {computeEllipsePoints(
                      ep.increment, x, y, ep.rx, ep.ry, Milli,
                      Mul(ep.increment,
                          offsetRange(100, offsetRange(400, Milli, o, Milli, d.nums[1]),
                                      o, Milli, d.nums[2])),
                      o, d.c)} }) :
          d \in {DrawN(o, c, 2)} })

\* ellipseWithParams(x, y, o, ep): the OpSet and the core points.  The
\* overlap is drawn first (inner offsetRange, then outer); the second pass
\* is made unless disableMultiStroke is set or roughness is 0.
ellipseWithParams(x, y, o, ep, c) ==
    The({ The({ The({
        IF ~Val(o.disableMultiStroke) /\ Val(o.roughness) # 0
        THEN The({ The({ [c |-> o2.c, set |-> OpSet("path", o1.ops \o o2.ops),
                          core |-> p1.core] :
                           o2 \in {curveOps(p2.all, None, o, p2.c)} }) :
                     p2 \in {computeEllipsePoints(ep.increment, x, y, ep.rx, ep.ry,
                                                  1500, 0, o, o1.c)} })
        ELSE [c |-> o1.c, set |-> OpSet("path", o1.ops), core |-> p1.core] :
              o1 \in {curveOps(p1.all, None, o, p1.c)} }) :
            p1 \in {computeEllipsePoints(
                      ep.increment, x, y, ep.rx, ep.ry, Milli,
                      Mul(ep.increment,
                          offsetRange(100, offsetRange(400, Milli, o, Milli, d.nums[1]),
                                      o, Milli, d.nums[2])),
                      o, d.c)} }) :
          d \in {DrawN(o, c, 2)} })

\* ellipse(x, y, width, height, o)
ellipse(x, y, width, height, o, c) ==
    The({ The({ [c |-> e.c, set |-> e.set] :
                  e \in {ellipseWithParams(x, y, o, g.ep, g.c)} }) :
            g \in {generateEllipseParams(width, height, o, c)} })

(***************************************************************************)
(* fillers/scan_line_hachure.py: polygon_hachure_lines                     *)
(***************************************************************************)

RECURSIVE MinOf(_)
MinOf(xs) == IF Len(xs) = 1 THEN xs[1] ELSE Min2(xs[1], MinOf(Tail(xs)))
RECURSIVE MaxOf(_)
MaxOf(xs) == IF Len(xs) = 1 THEN xs[1] ELSE Max2(xs[1], MaxOf(Tail(xs)))

\* _rotatePoint(p, theta)
rotatePoint(p, theta) ==
    The({ << Mul(p[1], cs[1]) - Mul(p[2], cs[2]), Mul(p[1], cs[2]) + Mul(p[2], cs[1]) >> :
            cs \in {<<Cos(theta), Sin(theta)>>} })

\* _edge_intersects_scanline(p1, p2, scanY)
edgeIntersectsScanline(p1, p2, scanY) ==
    ~(scanY <= Min2(p1[2], p2[2]) \/ scanY >= Max2(p1[2], p2[2]))

\* _xIntersect(p1, p2, y), for an edge that is not horizontal.
xIntersect(p1, p2, y) == p1[1] + (((y - p1[2]) * (p2[1] - p1[1])) \div (p2[2] - p1[2]))

\* list.sort(key=lambda c: c[0]): a stable insertion sort on the first item.
RECURSIVE InsertByX(_, _)
InsertByX(c, sorted) ==
    IF sorted = <<>> THEN <<c>>
    ELSE IF c[1] < sorted[1][1] THEN <<c>> \o sorted
    ELSE <<sorted[1]>> \o InsertByX(c, Tail(sorted))
RECURSIVE SortByX(_)
SortByX(cs) ==
    IF cs = <<>> THEN <<>>
    ELSE InsertByX(cs[Len(cs)], SortByX(SubSeq(cs, 1, Len(cs) - 1)))

\* _horizontalIntersectionsNonZero(rpoly, scanY): the crossings <<x, sign>>.
RECURSIVE CrossingsFrom(_, _, _)
CrossingsFrom(rpoly, scanY, i) ==
    IF i > Len(rpoly) THEN <<>>
    ELSE (IF edgeIntersectsScanline(rpoly[i], rpoly[(i % Len(rpoly)) + 1], scanY)
          THEN << << xIntersect(rpoly[i], rpoly[(i % Len(rpoly)) + 1], scanY),
                     IF rpoly[(i % Len(rpoly)) + 1][2] > rpoly[i][2] THEN 1 ELSE -1 >> >>
          ELSE <<>>) \o CrossingsFrom(rpoly, scanY, i + 1)
horizontalIntersectionsNonZero(rpoly, scanY) == SortByX(CrossingsFrom(rpoly, scanY, 1))

\* The inside spans of one scan line under the non-zero winding rule:
\* w is the running winding number and px the previous crossing (or None).
RECURSIVE WindingSegments(_, _, _)
WindingSegments(cs, w, px) ==
    IF cs = <<>> THEN <<>>
    ELSE (IF w # 0 /\ px # None /\ cs[1][1] > Val(px)
          THEN << <<Val(px), cs[1][1]>> >> ELSE <<>>)
         \o WindingSegments(Tail(cs), w + cs[1][2], Some(cs[1][1]))

\* The scan loop of polygon_hachure_lines over one rotated polygon.
RECURSIVE ScanLines(_, _, _, _, _)
ScanLines(rpoly, y, maxY, gap, back) ==
    IF y > maxY THEN <<>>
    ELSE The({ [i \in 1 .. Len(segs) |->
                   << rotatePoint(<<segs[i][1], y>>, back),
                      rotatePoint(<<segs[i][2], y>>, back) >>] :
                 segs \in {WindingSegments(horizontalIntersectionsNonZero(rpoly, y), 0, None)} })
         \o ScanLines(rpoly, y + gap, maxY, gap, back)

\* The gap between fill lines (scan_line_hachure.py 22-27).
hachureGapOf(o) ==
    Max2(IF o.hachureGap # None /\ Val(o.hachureGap) >= 0
         THEN Val(o.hachureGap)
         ELSE OrElse(o.strokeWidth, 2 * Milli) * 4,
         100)

\* polygon_hachure_lines(polygonList, o)
RECURSIVE polygon_hachure_lines(_, _)
polygon_hachure_lines(polygonList, o) ==
    IF polygonList = <<>> THEN <<>>
    ELSE (IF Len(polygonList[1]) < 3 THEN <<>>
          ELSE The({ ScanLines(rpoly,
                               MinOf([i \in 1 .. Len(rpoly) |-> rpoly[i][2]]),
                               MaxOf([i \in 1 .. Len(rpoly) |-> rpoly[i][2]]),
                               hachureGapOf(o),
                               Radians(-(OrElse(o.hachureAngle, -41) + 90))) :
                       rpoly \in { [i \in 1 .. Len(polygonList[1]) |->
                                     rotatePoint(polygonList[1][i],
                                                 -Radians(-(OrElse(o.hachureAngle, -41) + 90)))] } }))
         \o polygon_hachure_lines(Tail(polygonList), o)

(***************************************************************************)
(* fillers/: getFiller, HachureFiller, HatchFiller, DotFiller;             *)
(* renderer.py: solidFillPolygon, patternFillPolygons                      *)
(***************************************************************************)

\* HachureFiller.renderLines(lines, o): helper.doubleLineOps per line, which
\* is doubleLine(..., filling=True).
renderLines(lines, o, c) == doubleLines(lines, o, TRUE, c)

\* HachureFiller._fillPolygons(polygonList, o)
HachureFill(polygonList, o, c) ==
    The({ [c |-> r.c, set |-> OpSet("fillSketch", r.ops)] :
            r \in {renderLines(polygon_hachure_lines(polygonList, o), o, c)} })

\* HatchFiller.fillPolygons(polygonList, o): a second hachure at +90 degrees
\* with a copy o2 of o.  The copy takes o's attributes as they are then: it
\* shares o._randgen if o has one, else it creates its own from o.seed.
HatchFill(polygonList, o, c) ==
    The({ The({ [c |-> [py |-> set2.c.py, g |-> IF set1.c.g = None THEN None ELSE set2.c.g],
                 set |-> OpSet("fillSketch", set1.set.ops \o set2.set.ops)] :
                  set2 \in {HachureFill(
                              polygonList,
                              [o EXCEPT !.hachureAngle = Some(OrElse(o.hachureAngle, -41) + 90)],
                              set1.c)} }) :
            set1 \in {HachureFill(polygonList, o, c)} })

\* The dot size of DotFiller._dotsOnLines (dot_filler.py 35-39).
fillWeightOf(o) ==
    IF o.fillWeight # None /\ Val(o.fillWeight) >= 0
    THEN Val(o.fillWeight)
    ELSE OrElse(o.strokeWidth, 2 * Milli) \div 2

\* The inner loop of _dotsOnLines for one line: dots i .. count - 1.  The
\* centre of each dot is jittered with two calls of random.random(), the
\* global generator of Python; the dot itself is an ellipse sketched with o.
RECURSIVE DotsOnLine(_, _, _, _, _)
DotsOnLine(ln, i, count, o, c) ==
    IF i >= count THEN [c |-> c, ops |-> <<>>]
    ELSE The({ The({ [c |-> rest.c, ops |-> el.set.ops \o rest.ops] :
                       rest \in {DotsOnLine(ln, i + 1, count, o, el.c)} }) :
                 el \in { LET gap == hachureGapOf(o)
                              rad == gap \div 4
                              length == Distance(ln[1][1], ln[1][2], ln[2][1], ln[2][2])
                              offset == length - count * gap
                              x == ((ln[1][1] + ln[2][1]) \div 2) - (gap \div 4)
                              y == Min2(ln[1][2], ln[2][2]) + offset + i * gap
                          IN ellipse((x - rad) + ((Frac(PyValue(c.py)) * (2 * rad)) \div 1024),
                                     (y - rad)
                                       + ((Frac(PyValue(PyAdvance(c.py))) * (2 * rad)) \div 1024),
                                     fillWeightOf(o), fillWeightOf(o), o,
                                     [py |-> PyAdvance(PyAdvance(c.py)), g |-> c.g]) } })

\* The number of dots on a line of _dotsOnLines: ceil(length / gap) - 1.
dotCount(ln, o) ==
    Max2(((Distance(ln[1][1], ln[1][2], ln[2][1], ln[2][2]) + hachureGapOf(o) - 1)
            \div hachureGapOf(o)) - 1, 0)

\* DotFiller._dotsOnLines(lines, o)
RECURSIVE dotsOnLines(_, _, _)
dotsOnLines(lines, o, c) ==
    IF lines = <<>> THEN [c |-> c, ops |-> <<>>]
    ELSE The({ The({ [c |-> t.c, ops |-> h.ops \o t.ops] :
                       t \in {dotsOnLines(Tail(lines), o, h.c)} }) :
                 h \in {DotsOnLine(lines[1], 0, dotCount(lines[1], o), o, c)} })

\* DotFiller.fillPolygons(polygonList, o)
DotFill(polygonList, o, c) ==
    The({ [c |-> r.c, set |-> OpSet("fillSketch", r.ops)] :
            r \in {dotsOnLines(polygon_hachure_lines(polygonList,
                                                     [o EXCEPT !.hachureAngle = Some(0)]),
                               o, c)} })

\* solidFillPolygon(polygonList, o): no random draws.
RECURSIVE solidFillOps(_)
solidFillOps(polygonList) ==
    IF polygonList = <<>> THEN <<>>
    ELSE (IF Len(polygonList[1]) > 2
          THEN <<Op("move", polygonList[1][1])>>
               \o [i \in 1 .. Len(polygonList[1]) - 1 |-> Op("lineTo", polygonList[1][i + 1])]
          ELSE <<>>) \o solidFillOps(Tail(polygonList))
solidFillPolygon(polygonList, o, c) ==
    [c |-> c, set |-> OpSet("fillPath", solidFillOps(polygonList))]

\* The gap ZigZagLineFiller and DashedFiller start from: hachureGap if it is
\* not negative, else 4 * strokeWidth; it is not clamped.
rawGapOf(o) ==
    IF o.hachureGap # None /\ Val(o.hachureGap) >= 0
    THEN Val(o.hachureGap)
    ELSE OrElse(o.strokeWidth, 2 * Milli) * 4

\* The context of o after a copy of o (made from o.__dict__ in context c)
\* was drawn with and ended in context after: the copy shares o._randgen
\* if o had one, else it made its own.
CopyContext(c, after) == [py |-> after.py, g |-> IF c.g = None THEN None ELSE after.g]

\* The direction (cos alpha, sin alpha) of alpha = atan2(p2y - p1y, p2x - p1x)
\* for the line ln taken from its end with the smaller x, in Milli.
LeftEnd(ln) == IF ln[1][1] > ln[2][1] THEN ln[2] ELSE ln[1]
RightEnd(ln) == IF ln[1][1] > ln[2][1] THEN ln[1] ELSE ln[2]
LineLength(ln) == Distance(ln[1][1], ln[1][2], ln[2][1], ln[2][2])
CosAlpha(ln) ==
    IF LineLength(ln) = 0 THEN Milli
    ELSE ((RightEnd(ln)[1] - LeftEnd(ln)[1]) * Milli) \div LineLength(ln)
SinAlpha(ln) ==
    IF LineLength(ln) = 0 THEN 0
    ELSE ((RightEnd(ln)[2] - LeftEnd(ln)[2]) * Milli) \div LineLength(ln)
\* The point at distance t from the left end of ln, along ln.
Along(ln, t) ==
    <<LeftEnd(ln)[1] + Mul(t, CosAlpha(ln)), LeftEnd(ln)[2] + Mul(t, SinAlpha(ln))>>

\* The two lines ZigZagFiller draws for every hachure line of length > 0.
ZigZagLines(hlines, dgx, dgy) ==
    The({ [k \in 1 .. 2 * Len(kept) |->
              IF k % 2 = 1
              THEN << <<kept[(k + 1) \div 2][1][1] - dgx, kept[(k + 1) \div 2][1][2] + dgy>>,
                      kept[(k + 1) \div 2][2] >>
              ELSE << <<kept[(k + 1) \div 2][1][1] + dgx, kept[(k + 1) \div 2][1][2] - dgy>>,
                      kept[(k + 1) \div 2][2] >>] :
            kept \in {SelectSeq(hlines, LAMBDA l : LineLength(l) > 0)} })

\* ZigZagFiller.fillPolygons(polygonList, o): rendered with the copy o2.
ZigZagFill(polygonList, o, c) ==
    The({ [c |-> CopyContext(c, r.c), set |-> OpSet("fillSketch", r.ops)] :
            r \in {renderLines(
                     ZigZagLines(
                       polygon_hachure_lines(polygonList,
                                             [o EXCEPT !.hachureGap = Some(hachureGapOf(o))]),
                       Mul(hachureGapOf(o) \div 2, Cos(Radians(OrElse(o.hachureAngle, -41)))),
                       Mul(hachureGapOf(o) \div 2, Sin(Radians(OrElse(o.hachureAngle, -41))))),
                     [o EXCEPT !.hachureGap = Some(hachureGapOf(o))], c)} })

\* zo of ZigZagLineFiller.fillPolygons: zigzagOffset if it is not negative,
\* else the gap.
zigzagOffsetOf(o) ==
    IF o.zigzagOffset # None /\ Val(o.zigzagOffset) >= 0
    THEN Val(o.zigzagOffset)
    ELSE rawGapOf(o)

\* int(round(a / b)) for a >= 0 and b > 0: Python rounds halves to even.
RoundDiv(a, b) ==
    IF (2 * a + b) % (2 * b) = 0 /\ ((2 * a + b) \div (2 * b)) % 2 = 1
    THEN ((2 * a + b) \div (2 * b)) - 1
    ELSE (2 * a + b) \div (2 * b)

\* The segments of _zigzagLines for one line, zo > 0: for each i the rise
\* from (sx, sy) to (mx, my) and the fall to (ex, ey), where (mx, my) is
\* sqrt(2) * zo from (sx, sy) at the angle alpha + pi / 4.
ZigZagOnLine(ln, zo) ==
    [k \in 1 .. 2 * RoundDiv(LineLength(ln), 2 * zo) |->
        The({ IF k % 2 = 1 THEN <<s, m>> ELSE <<m, Along(ln, (((k - 1) \div 2) + 1) * 2 * zo)>> :
                m \in { <<s[1] + Mul(zo, CosAlpha(ln) - SinAlpha(ln)),
                          s[2] + Mul(zo, SinAlpha(ln) + CosAlpha(ln))>> :
                        s \in {Along(ln, ((k - 1) \div 2) * 2 * zo)} },
                s \in {Along(ln, ((k - 1) \div 2) * 2 * zo)} })]
RECURSIVE ZigZagOnLines(_, _)
ZigZagOnLines(hlines, zo) ==
    IF hlines = <<>> THEN <<>>
    ELSE ZigZagOnLine(hlines[1], zo) \o ZigZagOnLines(Tail(hlines), zo)

\* ZigZagLineFiller.fillPolygons(polygonList, o): the hachure lines are
\* taken gap + zo apart; _zigzagLines divides the length of the first line
\* by 2 * zo, which raises when zo is 0.
ZigZagLineFill(polygonList, o, c) ==
    The({ IF hlines # <<>> /\ zigzagOffsetOf(o) = 0
          THEN [raised |-> "ZeroDivisionError", c |-> c, set |-> OpSet("fillSketch", <<>>)]
          ELSE The({ [raised |-> "", c |-> CopyContext(c, r.c),
                      set |-> OpSet("fillSketch", r.ops)] :
                       r \in {doubleLines(ZigZagOnLines(hlines, zigzagOffsetOf(o)),
                                          [o EXCEPT !.hachureGap
                                                      = Some(rawGapOf(o) + zigzagOffsetOf(o))],
                                          TRUE, c)} }) :
            hlines \in {polygon_hachure_lines(
                          polygonList,
                          [o EXCEPT !.hachureGap = Some(rawGapOf(o) + zigzagOffsetOf(o))])} })

\* offset and gap of DashedFiller._dashedLine (dashed_filler.py 22-38).
dashOffsetOf(o) ==
    IF o.dashOffset # None /\ Val(o.dashOffset) >= 0 THEN Val(o.dashOffset) ELSE rawGapOf(o)
dashGapOf(o) ==
    IF o.dashGap # None /\ Val(o.dashGap) >= 0 THEN Val(o.dashGap) ELSE rawGapOf(o)

\* count of _dashedLine: floor(length / denom), denom being offset + gap or
\* 0.00001 when that is 0.
dashCount(ln, o) ==
    IF dashOffsetOf(o) + dashGapOf(o) # 0
    THEN LineLength(ln) \div (dashOffsetOf(o) + dashGapOf(o))
    ELSE LineLength(ln) * 100

\* The dashes of _dashedLine on one line.
DashesOnLine(ln, o) ==
    The({ [k \in 1 .. dashCount(ln, o) |->
              << Along(ln, (k - 1) * (dashOffsetOf(o) + dashGapOf(o)) + startOffset),
                 Along(ln, (k - 1) * (dashOffsetOf(o) + dashGapOf(o)) + dashOffsetOf(o)
                             + startOffset) >>] :
            startOffset \in {(LineLength(ln) + dashGapOf(o)
                                - dashCount(ln, o) * (dashOffsetOf(o) + dashGapOf(o))) \div 2} })
RECURSIVE DashesOnLines(_, _)
DashesOnLines(hlines, o) ==
    IF hlines = <<>> THEN <<>>
    ELSE DashesOnLine(hlines[1], o) \o DashesOnLines(Tail(hlines), o)

\* DashedFiller.fillPolygons(polygonList, o)
DashedFill(polygonList, o, c) ==
    The({ [c |-> r.c, set |-> OpSet("fillSketch", r.ops)] :
            r \in {doubleLines(DashesOnLines(polygon_hachure_lines(polygonList, o), o),
                               o, TRUE, c)} })

\* getFiller(o, helper): the name of the filler chosen for o.fillStyle.
getFiller(o) ==
    IF Truthy(o.fillStyle)
       /\ Val(o.fillStyle) \in {"zigzag", "cross-hatch", "dots", "dashed", "zigzag-line"}
    THEN Val(o.fillStyle) ELSE "hachure"

\* A filler's result that raised nothing.
Returned(r) == [raised |-> "", c |-> r.c, set |-> r.set]

\* patternFillPolygons(polygonList, o): the set of the filler of o.fillStyle,
\* or the exception it raised.
patternFillPolygons(polygonList, o, c) ==
    CASE getFiller(o) = "hachure" -> Returned(HachureFill(polygonList, o, c))
      [] getFiller(o) = "cross-hatch" -> Returned(HatchFill(polygonList, o, c))
      [] getFiller(o) = "dots" -> Returned(DotFill(polygonList, o, c))
      [] getFiller(o) = "zigzag" -> Returned(ZigZagFill(polygonList, o, c))
      [] getFiller(o) = "dashed" -> Returned(DashedFill(polygonList, o, c))
      [] getFiller(o) = "zigzag-line" -> ZigZagLineFill(polygonList, o, c)

(***************************************************************************)
(* renderer.py: arc, arcOps, patternFillArc                                *)
(***************************************************************************)

\* The radii of arc and patternFillArc: half the width and the height, each
\* grown by offsetOpt of its hundredth (two draws).
ArcRadii(width, height, o, c) ==
    The({ [c |-> d.c,
           rx |-> Abs(width \div 2) + offsetOpt(Abs(width \div 2) \div 100, o, Milli, d.nums[1]),
           ry |-> Abs(height \div 2) + offsetOpt(Abs(height \div 2) \div 100, o, Milli, d.nums[2])] :
            d \in {DrawN(o, c, 2)} })

\* The angles with a single turn added to a negative start.
ArcAngles_OneTurn(start, stop) ==
    The({ IF (stop + turns * TwoPi) - (start + turns * TwoPi) > TwoPi
          THEN <<0, TwoPi>>
          ELSE <<start + turns * TwoPi, stop + turns * TwoPi>> :
            turns \in {IF start < 0 THEN 1 ELSE 0} })

\* The normalised angles <<strt, stp>> of arc and patternFillArc.
ArcAngles(start, stop) ==
    The({ IF (stop + turns * TwoPi) - (start + turns * TwoPi) > TwoPi
          THEN <<0, TwoPi>>
          ELSE <<start + turns * TwoPi, stop + turns * TwoPi>> :
            turns \in {IF start < 0 THEN (TwoPi - 1 - start) \div TwoPi ELSE 0} })

\* arcOps(arcInc, cx, cy, rx, ry, strt, stp, offset, o) for arcInc > 0.
arcOps(arcInc, cx, cy, rx, ry, strt, stp, offset, o, c) ==
    The({ The({ The({ The({
        LET off(i) == offsetOpt(offset, o, Milli, d.nums[i])
        IN curveOps(<<EllipsePoint(cx, cy, rx, ry, 900, radOffset - arcInc)>>
                      \o [i \in 1 .. Len(as) |->
                            << off(2 * i - 1) + cx + Mul(rx, Cos(as[i])),
                               off(2 * i) + cy + Mul(ry, Sin(as[i])) >>]
                      \o << EllipsePoint(cx, cy, rx, ry, Milli, stp),
                            EllipsePoint(cx, cy, rx, ry, Milli, stp) >>,
                    None, o, d.c) :
              d \in {DrawN(o, r0.c, 2 * Len(as))} }) :
            as \in {LoopAngles(radOffset, stp, arcInc, TRUE)} }) :
          radOffset \in {strt + offsetOpt(100, o, Milli, r0.num)} }) :
        r0 \in {randomFloat(o, c)} })

\* The closure of arc at the centre: two sketched lines (roughClosure) or
\* two exact lineTo.
ArcClosure(cx, cy, rx, ry, strt, stp, roughClosure, o, c) ==
    IF roughClosure
    THEN The({ The({ [c |-> l2.c, ops |-> l1.ops \o l2.ops] :
                       l2 \in {The({ doubleLine(cx, cy, p[1], p[2], o, FALSE, l1.c) :
                                       p \in {EllipsePoint(cx, cy, rx, ry, Milli, stp)} })} }) :
                 l1 \in {The({ doubleLine(cx, cy, p[1], p[2], o, FALSE, c) :
                                 p \in {EllipsePoint(cx, cy, rx, ry, Milli, strt)} })} })
    ELSE [c |-> c,
          ops |-> << Op("lineTo", <<cx, cy>>),
                     Op("lineTo", EllipsePoint(cx, cy, rx, ry, Milli, strt)) >>]

\* arc(x, y, width, height, start, stop, closed, roughClosure, o) for
\* start < stop.
arc(x, y, width, height, start, stop, closed, roughClosure, o, c) ==
    The({ The({ The({ The({ The({
        [c |-> close.c, set |-> OpSet("path", pass1.ops \o pass2.ops \o close.ops)] :
                close \in {IF closed
                           THEN ArcClosure(x, y, r.rx, r.ry, a[1], a[2], roughClosure, o, pass2.c)
                           ELSE [c |-> pass2.c, ops |-> <<>>]} }) :
              pass2 \in {IF ~Val(o.disableMultiStroke)
                         THEN arcOps(arcInc, x, y, r.rx, r.ry, a[1], a[2], 1500, o, pass1.c)
                         ELSE [c |-> pass1.c, ops |-> <<>>]} }) :
            pass1 \in {arcOps(arcInc, x, y, r.rx, r.ry, a[1], a[2], Milli, o, r.c)} }) :
          arcInc \in {Min2((TwoPi \div OrElse(o.curveStepCount, 9)) \div 2,
                           (a[2] - a[1]) \div 2)} }) :
        r \in {ArcRadii(width, height, o, c)}, a \in {ArcAngles(start, stop)} })

\* patternFillArc(x, y, width, height, start, stop, o) for start < stop.
patternFillArc(x, y, width, height, start, stop, o, c) ==
    The({ The({
        patternFillPolygons(
            << [i \in 1 .. Len(as) |-> EllipsePoint(x, y, r.rx, r.ry, Milli, as[i])]
                 \o << EllipsePoint(x, y, r.rx, r.ry, Milli, a[2]), <<x, y>> >> >>,
            o, r.c) :
          as \in {LoopAngles(a[1], a[2], (a[2] - a[1]) \div OrElse(o.curveStepCount, 9), TRUE)} }) :
        r \in {ArcRadii(width, height, o, c)}, a \in {ArcAngles(start, stop)} })

(***************************************************************************)
(* generator.py: line, rectangle, linearPath, polygon, curve               *)
(***************************************************************************)

Drawable(shape, options, sets) == [shape |-> shape, options |-> options, sets |-> sets]

\* The assembly shared by RoughGenerator.rectangle and .polygon: the outline
\* is generated first, then the fill if o.fill is truthy (with the same o);
\* the fill set is listed first, the outline unless stroke is "none".
FilledShape(shape, points, o, c) ==
    The({ IF Truthy(o.fill)
          THEN The({ [raised |-> fill.raised,
                      d |-> Drawable(shape, o,
                                     IF fill.raised # "" THEN <<>>
                                     ELSE <<fill.set>> \o (IF o.stroke # Some("none")
                                                           THEN <<outline.set>> ELSE <<>>)),
                      c |-> fill.c] :
                       fill \in {IF o.fillStyle = Some("solid")
                                 THEN Returned(solidFillPolygon(<<points>>, o, outline.c))
                                 ELSE patternFillPolygons(<<points>>, o, outline.c)} })
          ELSE [raised |-> "",
                d |-> Drawable(shape, o,
                               IF o.stroke # Some("none") THEN <<outline.set>> ELSE <<>>),
                c |-> outline.c] :
            outline \in {polygon(points, o, c)} })

\* RoughGenerator.line / rectangle / linearPath / polygon / curve, after
\* o = self._o(options).
genLine(x1, y1, x2, y2, o, c) ==
    The({ [raised |-> "", d |-> Drawable("line", o, <<r.set>>), c |-> r.c] :
            r \in {line(x1, y1, x2, y2, o, c)} })
genRectangle(x, y, w, h, o, c) == FilledShape("rectangle", RectanglePoints(x, y, w, h), o, c)
genLinearPath(points, o, c) ==
    The({ [raised |-> "", d |-> Drawable("linearPath", o, <<r.set>>), c |-> r.c] :
            r \in {linearPath(points, FALSE, o, c)} })
genPolygon(points, o, c) == FilledShape("polygon", points, o, c)

\* The sets in the other order: the outline first, then the fill set.
Assemble_OutlineFirst(shape, o, fill, outline) ==
    IF fill # None /\ Val(fill).raised # ""
    THEN [raised |-> Val(fill).raised, d |-> Drawable(shape, o, <<>>), c |-> Val(fill).c]
    ELSE [raised |-> "",
          d |-> Drawable(shape, o,
                         (IF o.stroke # Some("none") THEN <<outline.set>> ELSE <<>>)
                           \o (IF fill # None THEN <<Val(fill).set>> ELSE <<>>)),
          c |-> IF fill # None THEN Val(fill).c ELSE outline.c]

\* The Drawable of a shape from its fill (a filler's result, or None for no
\* fill set) and its outline: the fill set first, then the outline unless
\* stroke is "none".
Assemble(shape, o, fill, outline) ==
    IF fill # None /\ Val(fill).raised # ""
    THEN [raised |-> Val(fill).raised, d |-> Drawable(shape, o, <<>>), c |-> Val(fill).c]
    ELSE [raised |-> "",
          d |-> Drawable(shape, o,
                         (IF fill # None THEN <<Val(fill).set>> ELSE <<>>)
                           \o (IF o.stroke # Some("none") THEN <<outline.set>> ELSE <<>>)),
          c |-> IF fill # None THEN Val(fill).c ELSE outline.c]

\* An outline op set taken as a solid fill: shape.type = "fillPath".
AsFillPath(c, r) == [raised |-> "", c |-> CopyContext(c, r.c), set |-> OpSet("fillPath", r.set.ops)]

\* x or d
OrDefault(x, d) == IF x = None \/ Val(x) = 0 THEN d ELSE Val(x)

\* RoughGenerator._solidFillHelper(o): a copy of o for a solid fill.
solidFillHelper(o) ==
    [o EXCEPT !.disableMultiStroke = Some(TRUE),
              !.roughness = Some(OrDefault(o.roughness, Milli)
                                 + OrDefault(o.fillShapeRoughnessGain, 800))]

\* RoughGenerator.curve(points, options) for a single list of points;
\* _approxCurveAsPoints returns the points themselves.
genCurve(points, o, c) ==
    The({ Assemble("curve", o,
                   IF ~(Truthy(o.fill) /\ o.fill # Some("none")) THEN None
                   ELSE IF o.fillStyle = Some("solid")
                   THEN Some(AsFillPath(outline.c, curve(points, solidFillHelper(o), outline.c)))
                   ELSE IF points # <<>>
                   THEN Some(patternFillPolygons(<<points>>, o, outline.c))
                   ELSE None,
                   outline) :
            outline \in {curve(points, o, c)} })

\* RoughGenerator.ellipse(x, y, width, height, options): the solid fill is
\* a second ellipseWithParams with the same params, the pattern fill is
\* over the core points of the outline.
genShapeEllipse(shape, x, y, width, height, o, c) ==
    The({ The({ Assemble(shape, o,
                         IF ~Truthy(o.fill) THEN None
                         ELSE IF o.fillStyle = Some("solid")
                         THEN Some(AsFillPath(e.c, ellipseWithParams(x, y, o, params.ep, e.c)))
                         ELSE Some(patternFillPolygons(<<e.core>>, o, e.c)),
                         e) :
                  e \in {ellipseWithParams(x, y, o, params.ep, params.c)} }) :
            params \in {generateEllipseParams(width, height, o, c)} })
genEllipse(x, y, width, height, o, c) == genShapeEllipse("ellipse", x, y, width, height, o, c)

\* RoughGenerator.circle(x, y, diameter, options): the ellipse, renamed.
genCircle(x, y, diameter, o, c) == genShapeEllipse("circle", x, y, diameter, diameter, o, c)

\* RoughGenerator.arc(x, y, width, height, start, stop, closed, options):
\* the solid fill is the arc closed with exact lines, drawn with a copy of
\* o that has disableMultiStroke set.
genArc(x, y, width, height, start, stop, closed, o, c) ==
    The({ Assemble("arc", o,
                   IF ~(closed /\ Truthy(o.fill)) THEN None
                   ELSE IF o.fillStyle = Some("solid")
                   THEN Some(AsFillPath(outline.c,
                                        arc(x, y, width, height, start, stop, TRUE, FALSE,
                                            [o EXCEPT !.disableMultiStroke = Some(TRUE)],
                                            outline.c)))
                   ELSE Some(patternFillArc(x, y, width, height, start, stop, o, outline.c)),
                   outline) :
            outline \in {arc(x, y, width, height, start, stop, closed, TRUE, o, c)} })

(***************************************************************************)
(* renderer.py: parsePathCommands, toAbsolute, cubicBezierOps, svgPath     *)
(***************************************************************************)

\* A token of the path string after parsePathCommands has put every command
\* letter between spaces and split at the spaces: a command letter, a
\* number (cmd = "") or any other word (cmd = "?").
CommandLetters ==
    {"a", "A", "c", "C", "h", "H", "l", "L", "m", "M", "q", "Q",
     "s", "S", "t", "T", "v", "V", "z", "Z"}
Letter(l) == [num |-> 0, cmd |-> l]
Number(n) == [num |-> n, cmd |-> ""]
Word == [num |-> 0, cmd |-> "?"]

LowerCase == {"a", "c", "h", "l", "m", "q", "s", "t", "v", "z"}
Upper(l) ==
    CASE l \in {"a", "A"} -> "A" [] l \in {"c", "C"} -> "C" [] l \in {"h", "H"} -> "H"
      [] l \in {"l", "L"} -> "L" [] l \in {"m", "M"} -> "M" [] l \in {"q", "Q"} -> "Q"
      [] l \in {"s", "S"} -> "S" [] l \in {"t", "T"} -> "T" [] l \in {"v", "V"} -> "V"
      [] l \in {"z", "Z"} -> "Z"

\* The loop of parsePathCommands from token i on: a command letter opens a
\* segment; a number is appended to the last segment, segs[-1], which raises
\* IndexError when there is none; float() of any other word raises
\* ValueError, which is caught.
RECURSIVE ParseFrom(_, _, _)
ParseFrom(tokens, i, segs) ==
    IF i > Len(tokens) THEN [raised |-> "", segs |-> segs]
    ELSE IF tokens[i].cmd \in CommandLetters
    THEN ParseFrom(tokens, i + 1, Append(segs, [nums |-> <<>>, cmd |-> tokens[i].cmd]))
    ELSE IF tokens[i].cmd = ""
    THEN IF segs = <<>> THEN [raised |-> "IndexError", segs |-> segs]
         ELSE ParseFrom(tokens, i + 1,
                        [segs EXCEPT ![Len(segs)].nums = Append(@, tokens[i].num)])
    ELSE ParseFrom(tokens, i + 1, segs)

parsePathCommands(tokens) == ParseFrom(tokens, 1, <<>>)

\* The number of values one command of toAbsolute takes.
Arity(up) ==
    CASE up \in {"M", "L"} -> 2 [] up \in {"H", "V"} -> 1 [] up = "C" -> 6
      [] up = "Q" -> 4 [] up = "A" -> 7 [] OTHER -> 0

\* The while loop of one branch of toAbsolute from nums[i] on: the values
\* of each complete group, made absolute, and the current point after it.
RECURSIVE AbsGroups(_, _, _, _, _)
AbsGroups(up, lower, nums, i, current) ==
    IF i + Arity(up) - 1 > Len(nums) THEN [current |-> current, out |-> <<>>]
    ELSE The({ The({ [current |-> rest.current,
                      out |-> <<[cmd |-> up, vals |-> vals]>> \o rest.out] :
                       rest \in {AbsGroups(up, lower, nums, i + Arity(up),
                                           CASE up = "H" -> <<vals[1], current[2]>>
                                             [] up = "V" -> <<current[1], vals[1]>>
                                             [] OTHER -> <<vals[Arity(up) - 1],
                                                           vals[Arity(up)]>>)} }) :
                 vals \in { [k \in 1 .. Arity(up) |->
                               nums[i + k - 1]
                               + (IF ~lower \/ (up = "A" /\ k < 6) THEN 0
                                  ELSE IF up = "H" THEN current[1]
                                  ELSE IF up = "V" THEN current[2]
                                  ELSE IF up = "A" THEN current[k - 5]
                                  ELSE current[2 - (k % 2)])] } })

\* toAbsolute(segments) from segment i on.
RECURSIVE AbsFrom(_, _, _, _)
AbsFrom(segs, i, current, first) ==
    IF i > Len(segs) THEN <<>>
    ELSE IF Upper(segs[i].cmd) = "Z"
    THEN <<[cmd |-> "Z", vals |-> <<>>]>> \o AbsFrom(segs, i + 1, first, first)
    ELSE IF Upper(segs[i].cmd) \in {"S", "T"}
    THEN AbsFrom(segs, i + 1, current, first)
    ELSE The({ g.out \o AbsFrom(segs, i + 1, g.current,
                                IF Upper(segs[i].cmd) = "M" THEN g.current ELSE first) :
                 g \in {AbsGroups(Upper(segs[i].cmd), segs[i].cmd \in LowerCase,
                                  segs[i].nums, 1, current)} })

toAbsolute(segs) == AbsFrom(segs, 1, <<0, 0>>, <<0, 0>>)

\* cubicBezierOps(cx1, cy1, cx2, cy2, ex, ey, current, o), v being
\* <<cx1, cy1, cx2, cy2, ex, ey>>: one pass, or two unless
\* disableMultiStroke; without preserveVertices a pass draws an offset for
\* each of its six values and the second also for its start.
cubicBezierOps(v, current, o, c) ==
    The({ LET pv == Val(o.preserveVertices)
              base == OrElse(o.maxRandomnessOffset, 2 * Milli)
              off(x, i) == IF pv THEN 0 ELSE offsetOpt(x, o, Milli, d.nums[i])
              first == << Op("move", current),
                          Op("bcurveTo", [k \in 1 .. 6 |-> v[k] + off(base, k)]) >>
              second == << Op("move", <<current[1] + off(base, 7), current[2] + off(base, 8)>>),
                           Op("bcurveTo", [k \in 1 .. 6 |-> v[k] + off(base + 300, 8 + k)]) >>
          IN [c |-> d.c,
              ops |-> IF Val(o.disableMultiStroke) THEN first ELSE first \o second] :
            d \in {DrawN(o, c, IF Val(o.preserveVertices) THEN 0
                                ELSE IF Val(o.disableMultiStroke) THEN 6 ELSE 14)} })

\* The cubic control points of the quadratic from current over q to e
\* (quadToCubic, singleQuadratic).
QuadControls(q, e, current) ==
    << current[1] + ((2 * (q[1] - current[1])) \div 3),
       current[2] + ((2 * (q[2] - current[2])) \div 3),
       e[1] + ((2 * (q[1] - e[1])) \div 3),
       e[2] + ((2 * (q[2] - e[2])) \div 3), e[1], e[2] >>

quadToCubic(q, e, current, o, c) == cubicBezierOps(QuadControls(q, e, current), current, o, c)
singleCubic(current, v) == << Op("move", current), Op("bcurveTo", v) >>
singleQuadratic(current, q, e) ==
    << Op("move", current), Op("bcurveTo", QuadControls(q, e, current)) >>

\* Mutant of PathStep: lines are sketched with doubleLine even when
\* disableMultiStroke is set.
PathStep_AlwaysSketched(seg, current, first, o, c) ==
    LET target == CASE seg.cmd \in {"M", "L"} -> <<seg.vals[1], seg.vals[2]>>
                    [] seg.cmd = "H" -> <<seg.vals[1], current[2]>>
                    [] seg.cmd = "V" -> <<current[1], seg.vals[1]>>
                    [] seg.cmd = "C" -> <<seg.vals[5], seg.vals[6]>>
                    [] seg.cmd = "Q" -> <<seg.vals[3], seg.vals[4]>>
                    [] seg.cmd = "Z" -> first
    IN The({ [c |-> r.c, ops |-> r.ops, current |-> target] :
               r \in { CASE seg.cmd = "M" -> [c |-> c, ops |-> <<Op("move", target)>>]
                         [] seg.cmd \in {"L", "H", "V", "Z"} ->
                               doubleLine(current[1], current[2], target[1], target[2],
                                          o, FALSE, c)
                         [] seg.cmd = "C" -> cubicBezierOps(seg.vals, current, o, c)
                         [] seg.cmd = "Q" ->
                               quadToCubic(<<seg.vals[1], seg.vals[2]>>, target,
                                           current, o, c) } })

\* The ops of one segment of the loop of svgPath and the current point
\* after it.  (Arc segments are not among the paths drawn here.)
PathStep(seg, current, first, o, c) ==
    LET single == Val(o.disableMultiStroke)
        target == CASE seg.cmd \in {"M", "L"} -> <<seg.vals[1], seg.vals[2]>>
                    [] seg.cmd = "H" -> <<seg.vals[1], current[2]>>
                    [] seg.cmd = "V" -> <<current[1], seg.vals[1]>>
                    [] seg.cmd = "C" -> <<seg.vals[5], seg.vals[6]>>
                    [] seg.cmd = "Q" -> <<seg.vals[3], seg.vals[4]>>
                    [] seg.cmd = "Z" -> first
    IN The({ [c |-> r.c, ops |-> r.ops, current |-> target] :
               r \in { CASE seg.cmd = "M" -> [c |-> c, ops |-> <<Op("move", target)>>]
                         [] seg.cmd \in {"L", "H", "V", "Z"} ->
                               IF single THEN [c |-> c, ops |-> <<Op("lineTo", target)>>]
                               ELSE doubleLine(current[1], current[2], target[1], target[2],
                                               o, FALSE, c)
                         [] seg.cmd = "C" ->
                               IF single THEN [c |-> c, ops |-> singleCubic(current, seg.vals)]
                               ELSE cubicBezierOps(seg.vals, current, o, c)
                         [] seg.cmd = "Q" ->
                               IF single
                               THEN [c |-> c,
                                     ops |-> singleQuadratic(current,
                                                <<seg.vals[1], seg.vals[2]>>, target)]
                               ELSE quadToCubic(<<seg.vals[1], seg.vals[2]>>, target,
                                                current, o, c) } })

\* The loop of svgPath over the absolute segments from segment i on.
RECURSIVE PathFrom(_, _, _, _, _, _)
PathFrom(segs, i, current, first, o, c) ==
    IF i > Len(segs) THEN [c |-> c, ops |-> <<>>]
    ELSE The({ The({ [c |-> rest.c, ops |-> st.ops \o rest.ops] :
                       rest \in {PathFrom(segs, i + 1, st.current,
                                          IF segs[i].cmd = "M" THEN st.current ELSE first,
                                          o, st.c)} }) :
                 st \in {PathStep(segs[i], current, first, o, c)} })

\* svgPath(path, o), path given as its tokens: the outline set, or the
\* exception parsePathCommands raises.
svgPath(tokens, o, c) ==
    IF tokens = <<>> THEN [raised |-> "", c |-> c, set |-> OpSet("path", <<>>)]
    ELSE The({ IF parsed.raised # ""
               THEN [raised |-> parsed.raised, c |-> c, set |-> OpSet("path", <<>>)]
               ELSE The({ [raised |-> "", c |-> r.c, set |-> OpSet("path", r.ops)] :
                            r \in {PathFrom(toAbsolute(parsed.segs), 1, <<0, 0>>, <<0, 0>>,
                                            o, c)} }) :
                 parsed \in {parsePathCommands(tokens)} })

(***************************************************************************)
(* generator.py: path, _approxPathSingle, _sampleSubpathAll, _pointOnCubic *)
(***************************************************************************)

\* The point an op moves the pen to.
OpTarget(op) == IF op.op = "bcurveTo" THEN SubSeq(op.data, 5, 6) ELSE op.data

\* _pointOnCubic at t = s / 20, per coordinate.
pointOnCubic(p0, p1, p2, p3, s) ==
    ((20 - s) * (20 - s) * (20 - s) * (p0 \div 10)
     + 3 * (20 - s) * (20 - s) * s * (p1 \div 10)
     + 3 * (20 - s) * s * s * (p2 \div 10)
     + s * s * s * (p3 \div 10)) \div 800

\* The points _sampleSubpathAll adds for op, the current point being cur.
SampleOp(op, cur) ==
    CASE op.op = "move" -> <<op.data>>
      [] op.op = "lineTo" ->
            [s \in 1 .. Max2(2, Distance(cur[1], cur[2], op.data[1], op.data[2]) \div 4000) |->
                << cur[1] + ((s * (op.data[1] - cur[1]))
                             \div Max2(2, Distance(cur[1], cur[2], op.data[1], op.data[2])
                                          \div 4000)),
                   cur[2] + ((s * (op.data[2] - cur[2]))
                             \div Max2(2, Distance(cur[1], cur[2], op.data[1], op.data[2])
                                          \div 4000)) >>]
      [] op.op = "bcurveTo" ->
            [s \in 1 .. 20 |->
                << pointOnCubic(cur[1], op.data[1], op.data[3], op.data[5], s),
                   pointOnCubic(cur[2], op.data[2], op.data[4], op.data[6], s) >>]

RECURSIVE SampleFrom(_, _, _)
SampleFrom(ops, i, cur) ==
    IF i > Len(ops) THEN <<>>
    ELSE SampleOp(ops[i], cur) \o SampleFrom(ops, i + 1, OpTarget(ops[i]))

\* _sampleSubpathAll(ops)
sampleSubpathAll(ops) ==
    IF ops = <<>> THEN <<>>
    ELSE << SubSeq(ops[1].data, 1, 2) >> \o SampleFrom(ops, 2, SubSeq(ops[1].data, 1, 2))

\* fill_o of RoughGenerator.path: the copy of o it fills with.
FillOptions(o) ==
    [o EXCEPT !.disableMultiStroke = Some(TRUE),
              !.roughness = Some(OrDefault(o.roughness, Milli)
                                 + OrDefault(o.fillShapeRoughnessGain, 800))]

\* The fill sets of RoughGenerator.path (generator.py 345-360); the copies
\* of o share its _randgen.
PathFill(tokens, o, c) ==
    IF ~(Truthy(o.fill) /\ Val(o.fill) \notin {"none", "transparent"})
    THEN [raised |-> "", c |-> c, sets |-> <<>>]
    ELSE The({ IF o.fillStyle = Some("solid")
               THEN [raised |-> "", c |-> raw.c, sets |-> <<OpSet("fillPath", raw.set.ops)>>]
               ELSE The({ IF Len(sampleSubpathAll(again.set.ops)) > 2
                          THEN The({ [raised |-> fill.raised, c |-> fill.c,
                                      sets |-> IF fill.raised # "" THEN <<>>
                                               ELSE <<fill.set>>] :
                                       fill \in {patternFillPolygons(
                                                   <<sampleSubpathAll(again.set.ops)>>,
                                                   FillOptions(o), again.c)} })
                          ELSE [raised |-> "", c |-> again.c, sets |-> <<>>] :
                            again \in {svgPath(tokens, FillOptions(o), raw.c)} }) :
                 raw \in {svgPath(tokens, FillOptions(o), c)} })

\* RoughGenerator.path(d, options), d given as its tokens.
genPath(tokens, o, c) ==
    IF tokens = <<>> THEN [raised |-> "", d |-> Drawable("path", o, <<>>), c |-> c]
    ELSE The({ IF stroke.raised # ""
               THEN [raised |-> stroke.raised, d |-> Drawable("path", o, <<>>), c |-> stroke.c]
               ELSE The({ [raised |-> fill.raised,
                           d |-> Drawable("path", o,
                                          IF fill.raised # "" THEN <<>>
                                          ELSE fill.sets \o (IF o.stroke # Some("none")
                                                             THEN <<stroke.set>> ELSE <<>>)),
                           c |-> fill.c] :
                            fill \in {PathFill(tokens, o, stroke.c)} }) :
                 stroke \in {svgPath(tokens, o, c)} })

(***************************************************************************)
(* generator.py: RoughGenerator.__init__, _merge_options, _o               *)
(***************************************************************************)

\* RoughGenerator.__init__(config): defaultOptions after the constructor.
\* cfg is Config.options (None for Config() or no config).
GeneratorInit(cfg) ==
    IF cfg # None THEN CopyNonNone(ResolvedOptions, Val(cfg)) ELSE ResolvedOptions

\* Mutant of GeneratorVisibility: the strokeWidth == 0 rule is missing.
GeneratorVisibility_NoWidthRule(o) ==
    LET o2 == IF o.stroke \in {None, Some("none")}
                 /\ o.fill \in {None, Some(""), Some("none")}
              THEN [o EXCEPT !.stroke = Some("#000")] ELSE o
        o3 == IF o2.fill \in {None, Some("none"), Some("")}
                 /\ o2.stroke \in {None, Some(""), Some("none")}
              THEN [o2 EXCEPT !.fill = Some("#0f0")] ELSE o2
    IN o3

\* generator.py 96-106: the "minimal check to avoid invisible shapes".
GeneratorVisibility(o) ==
    LET o1 == IF o.strokeWidth = Some(0) THEN [o EXCEPT !.stroke = Some("none")] ELSE o
        o2 == IF o1.stroke \in {None, Some("none")}
                 /\ o1.fill \in {None, Some(""), Some("none")}
              THEN [o1 EXCEPT !.stroke = Some("#000")] ELSE o1
        o3 == IF o2.fill \in {None, Some("none"), Some("")}
                 /\ o2.stroke \in {None, Some(""), Some("none")}
              THEN [o2 EXCEPT !.fill = Some("#0f0")] ELSE o2
    IN o3

\* The merge of _o (generator.py 85-94), before the visibility check.
MergedOptions(dflt, options) ==
    LET r1 == CopyNonNone(ResolvedOptions, dflt)
    IN IF options # None THEN CopyNonNone(r1, Val(options)) ELSE r1

\* Mutant of Resolve_o: the visibility check runs on the defaults, before
\* the call's options are merged in.
Resolve_o_CheckBeforeMerge(dflt, options) ==
    LET r1 == GeneratorVisibility(CopyNonNone(ResolvedOptions, dflt))
    IN IF options # None THEN CopyNonNone(r1, Val(options)) ELSE r1

\* RoughGenerator._o(options)
Resolve_o(dflt, options) == GeneratorVisibility(MergedOptions(dflt, options))

(***************************************************************************)
(* Specification SpecOptions: a generator is constructed from a Config and *)
(* then resolves the options of any number of draw calls.                  *)
(***************************************************************************)

\* Config(Options(...)) values tried: the fields of the visibility check, and
\* the other fields, each unset or set.
ConfigKw ==
    [strokeWidth : {None, Some(0)}, stroke : {None, Some("none")},
     fill : {None, Some("green")}]
    \cup [seed : {None, Some(5)}, strokeLineDash : {None, Some(<<15, 5>>)},
          gradientSmoothness : {None, Some(3)}]

\* Options(...) values tried in draw calls, falsy values included.
LocalKw ==
    [strokeWidth : {None, Some(0), Some(3 * Milli)},
     stroke : {None, Some(""), Some("none"), Some("red")},
     fill : {None, Some(""), Some("none"), Some("red")}]
    \cup [seed : {None, Some(7)}, roughness : {None, Some(0)},
          strokeLineDash : {None, Some(<<>>)}, gradientSmoothness : {None, Some(5)}]

InitOptions ==
    /\ phase = "new"
    /\ config = None
    /\ defaultOptions = ResolvedOptions
    /\ local = None
    /\ ro = None
    /\ rng = None /\ ret = None /\ draws = 0 /\ py = 0
    /\ req = None /\ drawable = None /\ raised = "" /\ fillLines = None
    /\ fillersCache = <<>> /\ filler = None
    /\ matrix = Identity /\ draw_calls = <<>> /\ transforms = 0
    /\ z_indexes = <<>> /\ svg = None
    /\ sweep = None /\ absolute = None

\* RoughGenerator(config)
NewGenerator ==
    /\ phase = "new"
    /\ \E c \in {None} \cup {Some(Kw(k)) : k \in ConfigKw} :
          /\ config' = c
          /\ defaultOptions' = GeneratorInit(IF c = None THEN None ELSE Some(Options(Val(c))))
    /\ phase' = "ready"
    /\ UNCHANGED <<local, ro, rndVars, py, drawVars, canvasVars, pathVars>>

\* A draw call's first statement: o = self._o(options)
ResolveCall ==
    /\ phase = "ready"
    /\ \E l \in {None} \cup {Some(Kw(k)) : k \in LocalKw} :
          /\ local' = l
          /\ ro' = Some(Resolve_o(defaultOptions,
                                  IF l = None THEN None ELSE Some(Options(Val(l)))))
    /\ UNCHANGED <<config, defaultOptions, phase, rndVars, py, drawVars, canvasVars, pathVars>>

NextOptions == NewGenerator \/ ResolveCall

SpecOptions == InitOptions /\ [][NextOptions]_vars

(***************************************************************************)
(* Claims about options resolution, checked under SpecOptions              *)
(***************************************************************************)

\* The keywords of the last call's Options and of the Config's Options
\* (all None when there is none), and the Options object of the last call.
LocalGiven == IF local = None THEN Kw(<<>>) ELSE Val(local)
ConfigGiven == IF config = None THEN Kw(<<>>) ELSE Val(config)
LocalObject == IF local = None THEN None ELSE Some(Options(Val(local)))
Empty == {None, Some(""), Some("none")}

\* C4 (as claimed): every option field of the resolved configuration is the
\* value given in the call's Options if one is given (falsy or not), else the
\* value given in the Config, else the library constant; stroke and fill are
\* then passed through the visibility check.
C4_Precedence ==
    ro # None =>
        LET want == [p \in Params |->
                        IF LocalGiven[p] # None THEN LocalGiven[p]
                        ELSE IF ConfigGiven[p] # None THEN ConfigGiven[p]
                        ELSE ResolvedOptions[p]]
        IN \A p \in Params : Val(ro)[p] = GeneratorVisibility(want)[p]

\* C5: no resolved configuration has stroke in {None, "none"} together with
\* fill in {None, "", "none"}.
C5_NeverInvisible ==
    ro # None => ~(Val(ro).stroke \in {None, Some("none")} /\ Val(ro).fill \in Empty)

\* C5 witness: a call whose merged options had stroke "none" and no fill.
C5_Witness ==
    /\ ro # None
    /\ MergedOptions(defaultOptions, LocalObject).stroke = Some("none")
    /\ MergedOptions(defaultOptions, LocalObject).fill \in Empty

C7_FallbackFill ==
    ro # None =>
        LET m == MergedOptions(defaultOptions, LocalObject)
        IN (m.fill \in Empty /\ m.stroke = Some("none")) => Val(ro).fill = Some("#0f0")

(***************************************************************************)
(* Specification SpecRandom: one Random object is created with some seed   *)
(* and next() is called on it repeatedly.                                  *)
(***************************************************************************)

MaxDraws == 12

\* Seeds tried: 0, small ones, seeds the tests use, -1, and seeds at and
\* around the modulus (random_seed() returns int(random.random() * 2**31),
\* which ranges over 0 .. 2147483647).
Seeds == {0, 1, 42, 232, 2142156371, 2147483646, 2147483647, -1, -2147483647}

InitRandom ==
    /\ phase = "new" /\ config = None /\ defaultOptions = ResolvedOptions
    /\ local = None /\ ro = None
    /\ rng = None /\ ret = None /\ draws = 0
    /\ py \in 0 .. PyPeriod - 1
    /\ req = None /\ drawable = None /\ raised = "" /\ fillLines = None
    /\ fillersCache = <<>> /\ filler = None
    /\ matrix = Identity /\ draw_calls = <<>> /\ transforms = 0
    /\ z_indexes = <<>> /\ svg = None
    /\ sweep = None /\ absolute = None

NewRandom ==
    /\ rng = None
    /\ \E seed \in Seeds : rng' = Some(Random(seed))
    /\ UNCHANGED <<optVars, ret, draws, py, drawVars, canvasVars, pathVars>>

CallNext ==
    /\ rng # None
    /\ draws < MaxDraws
    /\ LET n == RandomNext(Val(rng), py)
       IN /\ rng' = Some(n.g)
          /\ py' = n.py
          /\ ret' = Some(n.num)
    /\ draws' = draws + 1
    /\ UNCHANGED <<optVars, drawVars, canvasVars, pathVars>>

NextRandom == NewRandom \/ CallNext

SpecRandom == InitRandom /\ [][NextRandom]_vars

\* C8 (as claimed): for a non-zero seed, each call of next() replaces the
\* state s by (s * 48271) mod (2^31 - 1) and returns that new state over
\* 2^31 - 1, a value in [0, 1).
C8_NextRecurrence ==
    [][(rng # None /\ Val(rng).seed # 0 /\ draws' = draws + 1) =>
          /\ Val(rng').state = LcgStep(Val(rng).state)
          /\ ret' = Some(Val(rng').state)
          /\ 0 <= Val(ret') /\ Val(ret') < Modulus]_vars

\* C29 (as claimed): the state of a Random is 0, so that next() falls back
\* to Python's random.random(), exactly when its initial seed is 0; for every
\* other seed, the values random_seed() can return included, the state never
\* becomes 0 after any number of next() calls.
C29_FallbackOnlyForSeedZero ==
    rng # None => (Val(rng).state = 0 <=> Val(rng).seed = 0)

(***************************************************************************)
(* Spec: draw calls on one RoughGenerator()                                *)
(***************************************************************************)

\* A seed whose Random collapses to state 0, for chains and for the curve
\* (whose second pass uses seed + 1).
CollapsingSeed == Modulus
CurveCollapsingSeed == 0 - 1

\* Options(...) of the draw calls tried: for outlines, then with a fill.
OutlineKw(collapsing) ==
    [seed : {Some(7)}, roughness : {None, Some(0)}, preserveVertices : {None, Some(TRUE)}]
    \cup [seed : {Some(collapsing)}]
    \cup [seed : {Some(7)}, disableMultiStroke : {Some(TRUE)}]
    \cup [preserveVertices : {Some(TRUE)}]
FillKw ==
    [stroke : {Some("black")}, fill : {Some("red")}, seed : {Some(7)},
     disableMultiStrokeFill : {None, Some(TRUE)}, hachureGap : {Some(6 * Milli)}]
    \cup [stroke : {Some("black")}, fill : {Some("red")}, seed : {Some(7)},
          disableMultiStroke : {Some(TRUE)}, hachureGap : {Some(6 * Milli)}]
    \cup [stroke : {Some("black")}, fill : {Some("red")}, seed : {Some(7)},
          hachureGap : {Some(6 * Milli)},
          fillStyle : {Some("cross-hatch"), Some("dots"), Some("solid")}]
    \cup [fill : {Some("red")}, disableMultiStroke : {Some(TRUE)},
          hachureGap : {Some(6 * Milli)}, fillStyle : {Some("dots")}]
PolygonKw ==
    [seed : {Some(7)}, preserveVertices : {None, Some(TRUE)}]
    \cup [fill : {Some("red")}, seed : {Some(7)}, hachureGap : {Some(6 * Milli)}]

\* Arguments of the draw calls tried, in Milli.
LineArgs == { << <<0, 0>>, <<100 * Milli, 50 * Milli>> >> }
LongLineArgs == { << <<0, 0>>, <<300 * Milli, 400 * Milli>> >> }
FlatLineArgs == { << <<0, 0>>, <<100 * Milli, 0>> >> }
RectangleArgs == { << <<10 * Milli, 10 * Milli>>, <<10 * Milli, 10 * Milli>> >> }
PathArgs == { << <<0, 0>>, <<40 * Milli, 30 * Milli>>, <<80 * Milli, 0>> >> }
PolygonArgs == { << <<0, 0>>, <<12 * Milli, 0>>, <<0, 12 * Milli>> >> }
TwoPointArgs == { << <<0, 0>>, <<12 * Milli, 0>> >> }
CurveArgs == { << <<0, 0>>, <<50 * Milli, 30 * Milli>>, <<100 * Milli, 0>> >> }

Request(shape, args, kw) == [kw |-> Kw(kw), shape |-> shape, args |-> args]

\* The generator method of request r, run with resolved options o.
Generate(r, o, c) ==
    CASE r.shape = "line" ->
            genLine(r.args[1][1], r.args[1][2], r.args[2][1], r.args[2][2], o, c)
      [] r.shape = "rectangle" ->
            genRectangle(r.args[1][1], r.args[1][2], r.args[2][1], r.args[2][2], o, c)
      [] r.shape = "linearPath" -> genLinearPath(r.args, o, c)
      [] r.shape = "polygon" -> genPolygon(r.args, o, c)
      [] r.shape = "curve" -> genCurve(r.args, o, c)
      [] r.shape = "ellipse" ->
            genEllipse(r.args[1][1], r.args[1][2], r.args[2][1], r.args[2][2], o, c)
      [] r.shape = "circle" -> genCircle(r.args[1][1], r.args[1][2], r.args[2][1], o, c)
      [] r.shape = "arc" ->
            genArc(r.args[1][1], r.args[1][2], r.args[2][1], r.args[2][2],
                   r.args[3][1], r.args[3][2], r.args[4], o, c)

\* The options a draw call resolves: self._o(Options(...)).
ResolveFor(r) == Resolve_o(defaultOptions, Some(Options(r.kw)))

\* One draw call: resolve the options, generate, return the Drawable.  The
\* ResolvedOptions object is new in every call, so its _randgen starts unset.
Call(r) ==
    /\ phase = "ready"
    /\ \E o \in {ResolveFor(r)} :
          /\ local' = Some(r.kw)
          /\ ro' = Some(o)
          /\ req' = Some(r)
          /\ \E g \in {Generate(r, o, [py |-> py, g |-> None])} :
                /\ drawable' = IF g.raised = "" THEN Some(g.d) ELSE None
                /\ raised' = g.raised
                /\ py' = g.c.py
    /\ UNCHANGED <<config, defaultOptions, phase, rndVars, fillVars, canvasVars, pathVars>>

Init ==
    /\ phase = "ready" /\ config = None /\ defaultOptions = GeneratorInit(None)
    /\ local = None /\ ro = None
    /\ rng = None /\ ret = None /\ draws = 0
    /\ py = 0
    /\ req = None /\ drawable = None /\ raised = "" /\ fillLines = None
    /\ fillersCache = <<>> /\ filler = None
    /\ matrix = Identity /\ draw_calls = <<>> /\ transforms = 0
    /\ z_indexes = <<>> /\ svg = None
    /\ sweep = None /\ absolute = None

DrawLine ==
    \/ \E a \in LineArgs, k \in OutlineKw(CollapsingSeed) : Call(Request("line", a, k))
    \/ \E a \in LongLineArgs : Call(Request("line", a, [seed |-> Some(7)]))
    \/ \E a \in FlatLineArgs : Call(Request("line", a, [seed |-> Some(42)]))
DrawRectangle ==
    \E a \in RectangleArgs, k \in OutlineKw(CollapsingSeed) \cup FillKw :
        Call(Request("rectangle", a, k))
DrawLinearPath ==
    \E a \in PathArgs, k \in OutlineKw(CollapsingSeed) : Call(Request("linearPath", a, k))
DrawPolygon ==
    \/ \E a \in PolygonArgs, k \in PolygonKw : Call(Request("polygon", a, k))
    \/ \E a \in TwoPointArgs :
          Call(Request("polygon", a, [seed |-> Some(7), preserveVertices |-> Some(TRUE)]))
DrawCurve ==
    \/ \E a \in CurveArgs, k \in OutlineKw(CurveCollapsingSeed) : Call(Request("curve", a, k))
    \/ \E a \in CurveArgs :
          Call(Request("curve", a, [seed |-> Some(7), maxRandomnessOffset |-> Some(Milli \div 2)]))

Next == DrawLine \/ DrawRectangle \/ DrawLinearPath \/ DrawPolygon \/ DrawCurve

Spec == Init /\ [][Next]_vars

(***************************************************************************)
(* Claims about draw calls, checked under Spec                             *)
(***************************************************************************)

\* The last call gave an explicit non-zero seed.
SeedGiven(rq) == rq # None /\ Val(rq).kw.seed # None /\ Val(Val(rq).kw.seed) # 0

\* The outline sets and the fill sets of a Drawable.
OutlineSets(dr) == SelectSeq(dr.sets, LAMBDA st : st.type = "path")
FillSets(dr) == SelectSeq(dr.sets, LAMBDA st : st.type \in {"fillSketch", "fillPath"})

\* C1 (as claimed): when a draw call with an explicit non-zero seed is made
\* again with the same arguments, the outline it generates is identical.
C1_OutlineRepeats ==
    [][(SeedGiven(req) /\ req' = req) =>
          OutlineSets(Val(drawable')) = OutlineSets(Val(drawable))]_vars

\* C2 (as claimed): when a draw call with an explicit non-zero seed is made
\* again with the same arguments, the fill it generates is identical, the
\* jitter of dots included.
C2_FillRepeats ==
    [][(SeedGiven(req) /\ req' = req) =>
          FillSets(Val(drawable')) = FillSets(Val(drawable))]_vars

\* C3 (as claimed): the geometry of a call with an explicit non-zero seed is
\* the one the same call returns as the first call of the process, whatever
\* calls were made before it.
C3_IndependentOfEarlierCalls ==
    SeedGiven(req) =>
        Val(drawable).sets = Generate(Val(req), Val(ro), [py |-> 0, g |-> None]).d.sets

\* The straight segments of the outline of a request, in drawing order.
OutlineSegments(r) ==
    CASE r.shape = "line" -> << <<r.args[1], r.args[2]>> >>
      [] r.shape = "rectangle" ->
            PathSegments(RectanglePoints(r.args[1][1], r.args[1][2],
                                         r.args[2][1], r.args[2][2]), TRUE)
      [] r.shape = "linearPath" -> PathSegments(r.args, FALSE)
      [] r.shape = "polygon" -> PathSegments(r.args, TRUE)

\* The polygon a request fills, and the straight segments of its hachure or
\* cross-hatch fill.
FillPolygon(r) ==
    IF r.shape = "rectangle"
    THEN RectanglePoints(r.args[1][1], r.args[1][2], r.args[2][1], r.args[2][2])
    ELSE r.args
FillSegments(r, o) ==
    polygon_hachure_lines(<<FillPolygon(r)>>, o)
    \o (IF o.fillStyle = Some("cross-hatch")
        THEN polygon_hachure_lines(
                <<FillPolygon(r)>>,
                [o EXCEPT !.hachureAngle = Some(Val(o.hachureAngle) + 90)])
        ELSE <<>>)

\* ops is n passes per segment over the segments segs, each pass one move
\* followed by one bcurveTo.
IsPasses(ops, segs, n) ==
    /\ Len(ops) = 2 * n * Len(segs)
    /\ \A i \in 1 .. n * Len(segs) :
          ops[2 * i - 1].op = "move" /\ ops[2 * i].op = "bcurveTo"

Straight == {"line", "rectangle", "linearPath", "polygon"}

\* C9: every straight segment of an outline is sketched in one pass if
\* disableMultiStroke is set and in two otherwise; every straight segment of
\* a hachure or cross-hatch fill in one pass if disableMultiStrokeFill is
\* set and in two otherwise; a pass is one move followed by one bcurveTo.
C9_Passes ==
    (drawable # None /\ Val(req).shape \in Straight) =>
        \A i \in 1 .. Len(Val(drawable).sets) :
            LET st == Val(drawable).sets[i]
                o == Val(ro)
            IN /\ st.type = "path" =>
                    IsPasses(st.ops, OutlineSegments(Val(req)),
                             IF Val(o.disableMultiStroke) THEN 1 ELSE 2)
               /\ (st.type = "fillSketch" /\ getFiller(o) \in {"hachure", "cross-hatch"}) =>
                    IsPasses(st.ops, FillSegments(Val(req), o),
                             IF Val(o.disableMultiStrokeFill) THEN 1 ELSE 2)

\* A hachure fill sketched in single passes next to an outline in two.
C9_Witness ==
    /\ drawable # None
    /\ Val(req).shape = "rectangle"
    /\ Val(Val(ro).disableMultiStrokeFill) /\ ~Val(Val(ro).disableMultiStroke)
    /\ Len(Val(drawable).sets) = 2
    /\ Val(drawable).sets[1].type = "fillSketch"
    /\ Len(Val(drawable).sets[1].ops) = 2 * Len(FillSegments(Val(req), Val(ro)))
    /\ Len(Val(drawable).sets[1].ops) > 0
    /\ Len(Val(drawable).sets[2].ops) = 16

\* Every pass over the segments segs starts exactly at the segment's first
\* point and ends exactly at its second.
ExactEnds(ops, segs, n) ==
    \A j \in 1 .. Len(segs) : \A q \in 1 .. n :
        LET i == (j - 1) * n + q
        IN /\ ops[2 * i - 1].data = segs[j][1]
           /\ SubSeq(ops[2 * i].data, 5, 6) = segs[j][2]

\* Every pass of a multi-point curve starts exactly at the first given
\* point and ends exactly at the last.
ExactCurveEnds(ops, points, n) ==
    \A q \in 1 .. n :
        LET len == Len(ops) \div n
        IN /\ ops[(q - 1) * len + 1].data = points[1]
           /\ SubSeq(ops[q * len].data, 5, 6) = points[Len(points)]

PassCount == IF Val(Val(ro).disableMultiStroke) THEN 1 ELSE 2

\* C10 (as claimed): with preserveVertices set, the start and end points of
\* every sketched line segment and of a multi-point curve are exactly the
\* given points.
C10_PreservedVertices ==
    (drawable # None /\ Val(Val(ro).preserveVertices)) =>
        \A i \in 1 .. Len(Val(drawable).sets) :
            Val(drawable).sets[i].type = "path" =>
                IF Val(req).shape = "curve"
                THEN ExactCurveEnds(Val(drawable).sets[i].ops, Val(req).args, PassCount)
                ELSE ExactEnds(Val(drawable).sets[i].ops, OutlineSegments(Val(req)), PassCount)

\* C10 (amended): with preserveVertices set, the start and end points of
\* every sketched line segment are exactly the given points, whatever the
\* roughness and the seed; those of a multi-point curve are when the
\* roughness is 0.
C10_PreservedVerticesOfLines ==
    (drawable # None /\ Val(Val(ro).preserveVertices)) =>
        \A i \in 1 .. Len(Val(drawable).sets) :
            Val(drawable).sets[i].type = "path" =>
                IF Val(req).shape = "curve"
                THEN Val(Val(ro).roughness) = 0 =>
                        ExactCurveEnds(Val(drawable).sets[i].ops, Val(req).args, PassCount)
                ELSE ExactEnds(Val(drawable).sets[i].ops, OutlineSegments(Val(req)), PassCount)

\* A rough two-pass path with preserveVertices: the control points are
\* jittered, the vertices are not.
C10_Witness ==
    /\ drawable # None
    /\ Val(req).shape = "linearPath"
    /\ Val(Val(ro).preserveVertices) /\ Val(Val(ro).roughness) # 0
    /\ Len(Val(drawable).sets[1].ops) = 8
    /\ Val(drawable).sets[1].ops[2].data # Val(drawable).sets[1].ops[4].data
    /\ Val(drawable).sets[1].ops[1].data = Val(req).args[1]
    /\ SubSeq(Val(drawable).sets[1].ops[8].data, 5, 6) = Val(req).args[3]

\* a is within bound of b, up to the rounding of the thousandths.
Within(a, b, bound) == Abs(a - b) <= bound + 1

\* The point an operation ends at.
OpEnd(op) == IF op.op = "bcurveTo" THEN SubSeq(op.data, 5, 6) ELSE op.data

\* maxRandomnessOffset * roughness * gain for the segment, gain being the
\* length gain of lineOps.
JitterBound(o, seg) ==
    Mul(Mul(OrElse(o.maxRandomnessOffset, 2 * Milli), OrElse(o.roughness, Milli)),
        roughnessGain(Distance(seg[1][1], seg[1][2], seg[2][1], seg[2][2])))

\* The largest bow displacement of a control point of the segment (the
\* random midDispX, midDispY of lineOps), scaled by roughness and gain.
BowBound(o, seg) ==
    LET length == Distance(seg[1][1], seg[1][2], seg[2][1], seg[2][2])
        moff == lineOffset(seg[1][1], seg[1][2], seg[2][1], seg[2][2], o, length)
        span == Max2(Abs(seg[1][1] - seg[2][1]), Abs(seg[1][2] - seg[2][2]))
    IN Mul(Mul((Mul(OrElse(o.bowing, Milli), moff) * (span \div 100)) \div 2000 + 1,
               OrElse(o.roughness, Milli)),
           roughnessGain(length))

\* The start and end point of every pass over segs lie within bound(seg) of
\* the segment's, in each coordinate.
EndsWithin(ops, segs, n, bound(_)) ==
    \A j \in 1 .. Len(segs) : \A q \in 1 .. n : \A k \in 1 .. 2 :
        LET i == (j - 1) * n + q
        IN /\ Within(ops[2 * i - 1].data[k], segs[j][1][k], bound(segs[j]))
           /\ Within(ops[2 * i].data[4 + k], segs[j][2][k], bound(segs[j]))

\* The control points of every pass over a horizontal or vertical segment
\* lie within bound(seg) of the segment's line, across the segment.
ControlsWithin(ops, segs, n, bound(_)) ==
    \A j \in 1 .. Len(segs) : \A q \in 1 .. n : \A k \in 1 .. 2 :
        LET i == (j - 1) * n + q
        IN segs[j][1][k] = segs[j][2][k] =>
              /\ Within(ops[2 * i].data[k], segs[j][1][k], bound(segs[j]))
              /\ Within(ops[2 * i].data[2 + k], segs[j][1][k], bound(segs[j]))

\* Every point of pass q of a multi-point curve lies within bound(q) of the
\* given point, in each coordinate.
CurveWithin(ops, points, n, bound(_)) ==
    \A q \in 1 .. n : \A i \in 1 .. Len(points) : \A k \in 1 .. 2 :
        Within(OpEnd(ops[(q - 1) * (Len(ops) \div n) + i])[k], points[i][k], bound(q))

\* The offsets curve passes to curveWithOffset for pass q, times roughness.
CurveBound(o, q) ==
    Mul(OrElse(o.roughness, Milli),
        IF q = 1 THEN Mul(Milli, Milli + Mul(OrElse(o.roughness, Milli), 200))
        ELSE Mul(1500, Milli + Mul(OrElse(o.roughness, Milli), 220)))

ClosedSegments(points) ==
    [i \in 1 .. Len(points) - 1 |-> <<points[i], points[i + 1]>>]
    \o << <<points[Len(points)], points[1]>> >>

\* C12 (as claimed): the outline of polygon(points), for two or more
\* points, is sketched over the consecutive pairs followed by the closing
\* segment, so its last pass ends at the first point (exactly with
\* preserveVertices, within the jitter bound otherwise).
C12_ClosedOutline ==
    (drawable # None /\ Val(req).shape = "polygon" /\ Len(Val(req).args) >= 2) =>
        \A s \in 1 .. Len(Val(drawable).sets) :
            Val(drawable).sets[s].type = "path" =>
                LET ops == Val(drawable).sets[s].ops
                    segs == ClosedSegments(Val(req).args)
                IN /\ IsPasses(ops, segs, PassCount)
                   /\ EndsWithin(ops, segs, PassCount, LAMBDA seg : JitterBound(Val(ro), seg))
                   /\ Val(Val(ro).preserveVertices) =>
                         OpEnd(ops[Len(ops)]) = Val(req).args[1]

(***************************************************************************)
(* SpecPath: path calls on one RoughGenerator()                            *)
(***************************************************************************)

\* A path string is given by its groups, each a command letter (or "" for
\* none, "?" for a word that is neither a letter nor a number) followed by
\* numbers.
Group(cmd, nums) == [nums |-> nums, cmd |-> cmd]

\* The tokens of the path string of the groups.
RECURSIVE PathTokens(_)
PathTokens(groups) ==
    IF groups = <<>> THEN <<>>
    ELSE (CASE groups[1].cmd = "" -> <<>>
            [] groups[1].cmd = "?" -> <<Word>>
            [] OTHER -> <<Letter(groups[1].cmd)>>)
         \o [i \in 1 .. Len(groups[1].nums) |-> Number(groups[1].nums[i])]
         \o PathTokens(Tail(groups))

MoveGroup == Group("M", <<10 * Milli, 10 * Milli>>)
LineGroups ==
    { Group("L", <<30 * Milli, 10 * Milli>>), Group("l", <<5 * Milli, 0 - 5 * Milli>>),
      Group("H", <<40 * Milli>>), Group("h", <<0 - 5 * Milli>>),
      Group("V", <<40 * Milli>>), Group("v", <<5 * Milli>>), Group("Z", <<>>) }
CurveGroups ==
    { Group("C", <<10 * Milli, 20 * Milli, 20 * Milli, 20 * Milli, 20 * Milli, 10 * Milli>>),
      Group("c", <<0, 10 * Milli, 10 * Milli, 10 * Milli, 10 * Milli, 0>>),
      Group("Q", <<15 * Milli, 20 * Milli, 20 * Milli, 10 * Milli>>),
      Group("q", <<5 * Milli, 10 * Milli, 10 * Milli, 0>>) }
\* Paths with a word, with numbers before any command, with an incomplete
\* group and with a command toAbsolute does not know.
OddPaths ==
    { << MoveGroup, Group("?", <<>>), Group("L", <<30 * Milli, 10 * Milli>>) >>,
      << Group("?", <<>>), MoveGroup, Group("h", <<5 * Milli>>) >>,
      << Group("", <<5 * Milli>>), MoveGroup, Group("L", <<30 * Milli, 10 * Milli>>) >>,
      << Group("", <<5 * Milli, 5 * Milli>>) >>,
      << Group("?", <<>>) >>,
      << MoveGroup, Group("L", <<30 * Milli>>), Group("Z", <<>>) >>,
      << MoveGroup, Group("S", <<1 * Milli, 2 * Milli, 3 * Milli, 4 * Milli>>),
         Group("v", <<5 * Milli>>) >>,
      << >> }

SingleStrokeKw ==
    { [disableMultiStroke |-> Some(TRUE)],
      [seed |-> Some(7), roughness |-> Some(3 * Milli), disableMultiStroke |-> Some(TRUE)] }
PathFillKw ==
    [stroke : {None, Some("none")}, fill : {Some("red")}, seed : {Some(7)},
     disableMultiStroke : {Some(TRUE)}, hachureGap : {Some(6 * Milli)}, fillStyle : {None, Some("solid")}]
    \cup [fill : {Some("red")}, seed : {Some(7)}, hachureGap : {Some(6 * Milli)}]

\* One call of RoughGenerator.path: the Drawable, or the exception.
CallPath(r) ==
    /\ phase = "ready"
    /\ \E o \in {ResolveFor(r)} :
          /\ local' = Some(r.kw)
          /\ ro' = Some(o)
          /\ req' = Some(r)
          /\ \E g \in {genPath(PathTokens(r.args), o, [py |-> py, g |-> None])} :
                /\ drawable' = IF g.raised = "" THEN Some(g.d) ELSE None
                /\ raised' = g.raised
                /\ py' = g.c.py
    /\ UNCHANGED <<config, defaultOptions, phase, rndVars, fillVars, canvasVars, pathVars>>

DrawLinePath ==
    \/ \E g1 \in LineGroups, g2 \in LineGroups, k \in SingleStrokeKw :
          CallPath(Request("path", <<MoveGroup, g1, g2>>, k))
    \/ \E g1 \in {Group("h", <<10 * Milli>>)}, g2 \in {Group("v", <<10 * Milli>>)},
          g3 \in {Group("h", <<0 - 10 * Milli>>)}, k \in PathFillKw \cup {[seed |-> Some(7)]} :
          CallPath(Request("path", <<MoveGroup, g1, g2, g3, Group("z", <<>>)>>, k))
DrawCurvePath ==
    \E g1 \in CurveGroups, g2 \in {Group("Z", <<>>), Group("l", <<5 * Milli, 5 * Milli>>)},
       k \in {[disableMultiStroke |-> Some(TRUE)], [seed |-> Some(7)],
               [seed |-> Some(7), preserveVertices |-> Some(TRUE)]} :
        CallPath(Request("path", <<MoveGroup, g1, g2>>, k))
DrawOddPath ==
    \E a \in OddPaths, k \in {[disableMultiStroke |-> Some(TRUE)], [seed |-> Some(7)]} :
        CallPath(Request("path", a, k))

NextPath == DrawLinePath \/ DrawCurvePath \/ DrawOddPath

SpecPath == Init /\ [][NextPath]_vars

\* The operations the line commands of the groups stand for: a move for
\* every pair of a moveto, a lineTo to the absolute target of every lineto,
\* horizontal, vertical and closepath.
RECURSIVE LineTargets(_, _, _, _)
LineTargets(groups, i, current, first) ==
    IF i > Len(groups) THEN <<>>
    ELSE LET g == groups[i]
             rel == g.cmd \in LowerCase
             at == CASE Upper(g.cmd) \in {"M", "L"} ->
                          <<g.nums[1] + (IF rel THEN current[1] ELSE 0),
                            g.nums[2] + (IF rel THEN current[2] ELSE 0)>>
                     [] Upper(g.cmd) = "H" ->
                          <<g.nums[1] + (IF rel THEN current[1] ELSE 0), current[2]>>
                     [] Upper(g.cmd) = "V" ->
                          <<current[1], g.nums[1] + (IF rel THEN current[2] ELSE 0)>>
                     [] Upper(g.cmd) = "Z" -> first
         IN <<Op(IF Upper(g.cmd) = "M" THEN "move" ELSE "lineTo", at)>>
            \o LineTargets(groups, i + 1, at, IF Upper(g.cmd) = "M" THEN at ELSE first)

\* Every group is a complete moveto, lineto, horizontal, vertical or
\* closepath command.
LineCommandsOnly(groups) ==
    \A i \in 1 .. Len(groups) :
        \/ groups[i].cmd \in {"M", "m", "L", "l"} /\ Len(groups[i].nums) = 2
        \/ groups[i].cmd \in {"H", "h", "V", "v"} /\ Len(groups[i].nums) = 1
        \/ groups[i].cmd \in {"Z", "z"} /\ groups[i].nums = <<>>

\* C13: with disableMultiStroke, the outline of a path of moveto, lineto,
\* horizontal, vertical and closepath commands (absolute or relative) has
\* exactly one lineTo per lineto, horizontal, vertical and closepath
\* command, each with the exact absolute target, and nothing else but the
\* moves.
C13_SingleStrokePath ==
    (drawable # None /\ Val(req).shape = "path" /\ LineCommandsOnly(Val(req).args)
       /\ Val(req).args # <<>> /\ Val(Val(ro).disableMultiStroke)
       /\ Val(ro).stroke # Some("none")) =>
        /\ Val(drawable).sets # <<>>
        /\ LET outline == Val(drawable).sets[Len(Val(drawable).sets)]
           IN /\ outline.type = "path"
              /\ outline.ops = LineTargets(Val(req).args, 1, <<0, 0>>, <<0, 0>>)

\* A rough single-stroke path of relative commands: the two lineTo are at
\* the exact corners.
C13_Witness ==
    /\ drawable # None /\ Val(req).shape = "path"
    /\ Val(Val(ro).disableMultiStroke) /\ Val(Val(ro).roughness) = 3 * Milli
    /\ Val(req).args = <<MoveGroup, Group("h", <<0 - 5 * Milli>>), Group("v", <<5 * Milli>>)>>
    /\ Val(drawable).sets[1].ops
         = << Op("move", <<10 * Milli, 10 * Milli>>), Op("lineTo", <<5 * Milli, 10 * Milli>>),
              Op("lineTo", <<5 * Milli, 15 * Milli>>) >>

\* C18 (as claimed): parsing a path string never raises, whatever its
\* tokens are.
C18_ParseNeverRaises == raised = ""

(***************************************************************************)
(* Calls of polygon_hachure_lines with the options of a fill               *)
(***************************************************************************)

\* Convex polygons, in Milli.
ConvexPolygons ==
    { << <<0, 0>>, <<10 * Milli, 6 * Milli>>, <<0, 12 * Milli>>, <<0 - 10 * Milli, 6 * Milli>> >>,
      << <<0, 0>>, <<12 * Milli, 0>>, <<12 * Milli, 12 * Milli>>, <<0, 12 * Milli>> >>,
      << <<0, 0>>, <<12 * Milli, 0>>, <<12 * Milli, 6 * Milli>>, <<0, 12 * Milli>> >>,
      << <<0, 0>>, <<12 * Milli, 0>>, <<0, 12 * Milli>> >> }
\* An outer contour with an inner contour of the opposite orientation.
OuterContour == << <<0, 0>>, <<12 * Milli, 0>>, <<12 * Milli, 12 * Milli>>, <<0, 12 * Milli>> >>
HoleContours ==
    { << <<3 * Milli, 3 * Milli>>, <<3 * Milli, 9 * Milli>>,
         <<9 * Milli, 9 * Milli>>, <<9 * Milli, 3 * Milli>> >>,
      << <<2 * Milli, 5 * Milli>>, <<2 * Milli, 10 * Milli>>,
         <<10 * Milli, 10 * Milli>>, <<10 * Milli, 5 * Milli>> >> }
\* hachureAngle -90 makes the scan lines the horizontals of the polygon.
HachureAngles == {-90, -41}
HachureGaps == { k * (Milli \div 2) : k \in 2 .. 14 }

\* One call polygon_hachure_lines(polygonList, o) with o resolved from r.kw.
CallHachureLines(r) ==
    /\ phase = "ready"
    /\ \E o \in {ResolveFor(r)} :
          /\ local' = Some(r.kw)
          /\ ro' = Some(o)
          /\ req' = Some(r)
          /\ fillLines' = Some(polygon_hachure_lines(r.args, o))
    /\ UNCHANGED <<config, defaultOptions, phase, rndVars, py, drawable, raised, fillersCache, filler, canvasVars, pathVars>>

HachureConvex ==
    \E poly \in ConvexPolygons, a \in HachureAngles, gap \in HachureGaps :
        CallHachureLines(Request("hachure", <<poly>>,
                                 [hachureGap |-> Some(gap), hachureAngle |-> Some(a)]))
HachureContours ==
    \E hole \in HoleContours, gap \in HachureGaps :
        CallHachureLines(Request("hachure", <<OuterContour, hole>>,
                                 [hachureGap |-> Some(gap), hachureAngle |-> Some(-90)]))

NextHachure == HachureConvex \/ HachureContours

SpecHachure == Init /\ [][NextHachure]_vars

\* C14 (as claimed): for a convex polygon and a fixed angle, no larger gap
\* gives more hachure segments than the gap of the call.
C14_SmallerGapNoFewerSegments ==
    (fillLines # None /\ Len(Val(req).args) = 1) =>
        \A g1 \in HachureGaps :
            g1 > Val(Val(ro).hachureGap) =>
                Len(polygon_hachure_lines(Val(req).args,
                                          [Val(ro) EXCEPT !.hachureGap = Some(g1)]))
                  <= Len(Val(fillLines))

\* The line l (two points) runs through the inside of the axis-parallel
\* rectangle with the corners of contour.
CrossesInside(l, contour) ==
    LET xs == [i \in 1 .. Len(contour) |-> contour[i][1]]
        ys == [i \in 1 .. Len(contour) |-> contour[i][2]]
    IN /\ l[1][2] = l[2][2]
       /\ MinOf(ys) < l[1][2] /\ l[1][2] < MaxOf(ys)
       /\ Min2(l[1][1], l[2][1]) < MaxOf(xs)
       /\ Max2(l[1][1], l[2][1]) > MinOf(xs)

BoundaryXs(poly, y) ==
    UNION { (IF poly[i][2] = y THEN {poly[i][1]} ELSE {}) \cup
            (IF edgeIntersectsScanline(poly[i], poly[(i % Len(poly)) + 1], y)
             THEN {xIntersect(poly[i], poly[(i % Len(poly)) + 1], y)} ELSE {}) :
            i \in 1 .. Len(poly) }

\* The heights of the scan lines of poly that lie strictly between its
\* lowest and its highest point.
InteriorScanHeights(poly, gap) ==
    LET ys == [i \in 1 .. Len(poly) |-> poly[i][2]]
    IN { y \in { MinOf(ys) + k * gap : k \in 0 .. ((MaxOf(ys) - MinOf(ys)) \div gap) } :
           MinOf(ys) < y /\ y < MaxOf(ys) }

\* C27 (as claimed): every scan line that crosses the interior of a convex
\* polygon gives exactly one segment, spanning its two boundary crossings,
\* heights equal to the y of a vertex included (horizontal scan lines,
\* hachureAngle -90).
C27_OneSegmentPerScanLine ==
    (fillLines # None /\ Len(Val(req).args) = 1 /\ Val(ro).hachureAngle = Some(-90)) =>
        \A y \in InteriorScanHeights(Val(req).args[1], hachureGapOf(Val(ro))) :
            LET at == { i \in 1 .. Len(Val(fillLines)) : Val(fillLines)[i][1][2] = y }
                xs == BoundaryXs(Val(req).args[1], y)
            IN /\ Cardinality(at) = 1
               /\ \A i \in at :
                     Val(fillLines)[i] = << <<CHOOSE x \in xs : \A z \in xs : x <= z, y>>,
                                            <<CHOOSE x \in xs : \A z \in xs : z <= x, y>> >>

(***************************************************************************)
(* fillers/filler.py: getFiller with its module-level cache                *)
(***************************************************************************)

\* The strategy class getFiller constructs for a name (filler.py 18-31).
FillerClass(fillerName) ==
    CASE fillerName = "zigzag" -> "ZigZagFiller"
      [] fillerName = "cross-hatch" -> "HatchFiller"
      [] fillerName = "dots" -> "DotFiller"
      [] fillerName = "dashed" -> "DashedFiller"
      [] fillerName = "zigzag-line" -> "ZigZagLineFiller"
      [] OTHER -> "HachureFiller"
KnownFillers == {"zigzag", "cross-hatch", "dots", "dashed", "zigzag-line"}

\* A dict with key k set to v.
DictSet(dict, k, v) == [x \in DOMAIN dict \cup {k} |-> IF x = k THEN v ELSE dict[x]]

\* getFiller with every new strategy kept under the one key "hachure".
getFillerCached_OneSlot(cache, fillStyle) ==
    LET fillerName == IF fillStyle = None \/ Val(fillStyle) = "" THEN "hachure"
                      ELSE Val(fillStyle)
    IN IF "hachure" \in DOMAIN cache /\ fillerName \in DOMAIN cache
       THEN [filler |-> cache["hachure"], cache |-> cache]
       ELSE [filler |-> FillerClass(fillerName),
             cache |-> DictSet(DictSet(cache, fillerName, FillerClass(fillerName)),
                               "hachure", FillerClass(fillerName))]

\* getFiller(o, helper) on the cache: the strategy returned and the cache
\* afterwards.
getFillerCached(cache, fillStyle) ==
    LET fillerName == IF fillStyle = None \/ Val(fillStyle) = "" THEN "hachure"
                      ELSE Val(fillStyle)
    IN IF fillerName \in DOMAIN cache
       THEN [filler |-> cache[fillerName], cache |-> cache]
       ELSE IF fillerName \in KnownFillers
       THEN [filler |-> FillerClass(fillerName),
             cache |-> DictSet(cache, fillerName, FillerClass(fillerName))]
       ELSE [filler |-> "HachureFiller", cache |-> DictSet(cache, "hachure", "HachureFiller")]

\* The values of o.fillStyle tried.
FillStyles ==
    {None} \cup { Some(s) : s \in KnownFillers \cup {"hachure", "solid", "sunburst", ""} }

\* One call getFiller(o, helper) with o resolved from r.kw.
GetFiller ==
    /\ phase = "ready"
    /\ \E style \in FillStyles :
        \E r \in {Request("getFiller", <<>>, [fillStyle |-> style])} :
          \E o \in {ResolveFor(r)} :
            \E got \in {getFillerCached(fillersCache, o.fillStyle)} :
              /\ local' = Some(r.kw)
              /\ ro' = Some(o)
              /\ req' = Some(r)
              /\ filler' = Some(got.filler)
              /\ fillersCache' = got.cache
    /\ UNCHANGED <<config, defaultOptions, phase, rndVars, py, drawable, raised, fillLines, canvasVars, pathVars>>

NextFiller == GetFiller

SpecFiller == Init /\ [][NextFiller]_vars

\* C16: getFiller returns the strategy of the requested style when it is
\* zigzag, cross-hatch, dots, dashed or zigzag-line and the hachure strategy
\* for every other value, and every cache entry is the strategy of its key.
C16_FillerOfStyle ==
    /\ \A k \in DOMAIN fillersCache : fillersCache[k] = FillerClass(k)
    /\ filler # None =>
          Val(filler) = (IF Val(req).kw.fillStyle \in { Some(s) : s \in KnownFillers }
                         THEN FillerClass(Val(Val(req).kw.fillStyle))
                         ELSE "HachureFiller")

\* The cache holds all six strategies and a request with an unknown style
\* has just been answered with the hachure strategy.
C16_Witness ==
    /\ DOMAIN fillersCache = KnownFillers \cup {"hachure"}
    /\ Val(req).kw.fillStyle = Some("sunburst")
    /\ filler = Some("HachureFiller")

(***************************************************************************)
(* Pattern fills with hachureGap, zigzagOffset, dashOffset and dashGap     *)
(* zero, negative and positive                                             *)
(***************************************************************************)

PatternStyles == {"hachure", "cross-hatch", "zigzag", "zigzag-line", "dots", "dashed"}
GapValues == {Some(0), Some(0 - Milli), Some(4 * Milli)}
OffsetValues == {None, Some(0), Some(0 - 2 * Milli), Some(3 * Milli)}

\* Options of a filled rectangle.  The dashed strategy with offset + gap = 0
\* draws 100000 dashes per unit of length; those options are left out.
GapFillKw ==
    [fill : {Some("red")}, seed : {Some(7)}, hachureGap : GapValues,
     fillStyle : { Some(s) : s \in PatternStyles \ {"dashed"} }]
ZigZagLineKw ==
    [fill : {Some("red")}, seed : {Some(7)},
     hachureGap : GapValues \ {Some(0 - Milli)}, zigzagOffset : OffsetValues,
     fillStyle : {Some("zigzag-line")}]
DashedKw ==
    { k \in [fill : {Some("red")}, seed : {Some(7)}, hachureGap : {Some(4 * Milli)},
             dashOffset : OffsetValues \ {None}, dashGap : OffsetValues \ {None},
             fillStyle : {Some("dashed")}] :
        ~(k.dashOffset = Some(0) /\ k.dashGap = Some(0)) }

\* A gap of 0 becomes 0.1: it is drawn on a rectangle of 0.4 by 0.4, the
\* other gaps on one of 12 by 12.
SmallRectArgs == << <<0, 0>>, <<400, 400>> >>
LargeRectArgs == << <<0, 0>>, <<12 * Milli, 12 * Milli>> >>

FillRectangle(k) ==
    Call(Request("rectangle",
                 IF k.hachureGap = Some(0) THEN SmallRectArgs ELSE LargeRectArgs, k))

FillWithGap == \E k \in GapFillKw : FillRectangle(k)
FillZigZagLine == \E k \in ZigZagLineKw : FillRectangle(k)
FillDashed == \E k \in DashedKw : FillRectangle(k)

NextFill == FillWithGap \/ FillZigZagLine \/ FillDashed

SpecFill == Init /\ [][NextFill]_vars

\* C19 (as claimed): a filled rectangle of any pattern style, with any
\* hachureGap, zigzagOffset, dashOffset and dashGap, is returned with its
\* fill set first; no call raises.
C19_FillNeverRaises ==
    (req # None /\ Val(req).shape = "rectangle") =>
        /\ raised = ""
        /\ drawable # None
        /\ Val(drawable).sets[1].type = "fillSketch"

(***************************************************************************)
(* The order of the op sets of a filled shape                              *)
(***************************************************************************)

\* Combinations of fill, fillStyle and stroke.  A fill of "none" is truthy:
\* rectangle, ellipse, polygon and arc fill with it, curve and path do not.
ShapeKw ==
    [stroke : {Some("black"), Some("none")}, fill : {None, Some("red"), Some("none")},
     seed : {Some(7)}, hachureGap : {Some(6 * Milli)},
     fillStyle : {None, Some("solid"), Some("zigzag")}]

EllipseArgs == << <<10 * Milli, 10 * Milli>>, <<12 * Milli, 8 * Milli>> >>
CircleArgs == << <<10 * Milli, 10 * Milli>>, <<10 * Milli>> >>
ArcArgs(closed) == << <<20 * Milli, 20 * Milli>>, <<24 * Milli, 16 * Milli>>, <<0, HalfPi>>, closed >>
FilledCurveArgs == << <<0, 0>>, <<10 * Milli, 12 * Milli>>, <<20 * Milli, 0>> >>
SquarePath ==
    << MoveGroup, Group("h", <<10 * Milli>>), Group("v", <<10 * Milli>>),
       Group("h", <<0 - 10 * Milli>>), Group("z", <<>>) >>

ShapeRectangle == \E a \in RectangleArgs, k \in ShapeKw : Call(Request("rectangle", a, k))
ShapeEllipse == \E k \in ShapeKw : Call(Request("ellipse", EllipseArgs, k))
ShapeCircle == \E k \in ShapeKw : Call(Request("circle", CircleArgs, k))
ShapePolygon == \E a \in PolygonArgs, k \in ShapeKw : Call(Request("polygon", a, k))
ShapeArc == \E closed \in BOOLEAN, k \in ShapeKw : Call(Request("arc", ArcArgs(closed), k))
ShapeCurve == \E k \in ShapeKw : Call(Request("curve", FilledCurveArgs, k))
ShapePath == \E k \in ShapeKw : CallPath(Request("path", SquarePath, k))

NextShapes ==
    \/ ShapeRectangle \/ ShapeEllipse \/ ShapeCircle \/ ShapePolygon
    \/ ShapeArc \/ ShapeCurve \/ ShapePath

SpecShapes == Init /\ [][NextShapes]_vars

IsFillSet(set) == set.type \in {"fillPath", "fillSketch"}

\* C17: in the Drawable of a rectangle, ellipse, circle, polygon, arc, curve
\* or path, every fillPath or fillSketch set stands before the path set,
\* whatever fill, fillStyle and stroke are.
C17_FillBeforeOutline ==
    drawable # None =>
        \A i \in DOMAIN Val(drawable).sets, j \in DOMAIN Val(drawable).sets :
            (IsFillSet(Val(drawable).sets[i]) /\ Val(drawable).sets[j].type = "path") => i < j

\* A closed arc returned with its fill set and its outline.
C17_Witness ==
    /\ drawable # None /\ Val(drawable).shape = "arc"
    /\ Len(Val(drawable).sets) = 2
    /\ IsFillSet(Val(drawable).sets[1])
    /\ Val(drawable).sets[1].ops # <<>>
    /\ Val(drawable).sets[2].type = "path"

(***************************************************************************)
(* canvas.py: FakeCanvasContext, _applyMatrixToDrawable, RoughCanvas       *)
(***************************************************************************)

\* _matrixMultiply(m1, m2): the row-major product m1 x m2.
matrixMultiply(m1, m2) ==
    [k \in 1 .. 9 |->
        LET row == (k - 1) \div 3
            col == (k - 1) % 3
        IN Mul(m1[3 * row + 1], m2[col + 1]) + Mul(m1[3 * row + 2], m2[col + 4])
             + Mul(m1[3 * row + 3], m2[col + 7])]

\* The matrices of FakeCanvasContext.translate, .scale and .rotate.
TranslateMatrix(dx, dy) == <<Milli, 0, dx, 0, Milli, dy, 0, 0, Milli>>
ScaleMatrix(sx, sy) == <<sx, 0, 0, 0, sy, 0, 0, 0, Milli>>
RotateMatrix(angle) == <<Cos(angle), 0 - Sin(angle), 0, Sin(angle), Cos(angle), 0, 0, 0, Milli>>

\* _transformXY(x, y, mat)
transformXY(x, y, mat) ==
    << Mul(x, mat[1]) + Mul(y, mat[2]) + mat[3], Mul(x, mat[4]) + Mul(y, mat[5]) + mat[6] >>

\* A bcurveTo written back with its end point missing.
TransformOp_EndDropped(op, mat) ==
    IF op.data = <<>> THEN op
    ELSE IF op.op \in {"move", "lineTo"}
    THEN Op(op.op, transformXY(op.data[1], op.data[2], mat))
    ELSE IF op.op = "bcurveTo"
    THEN Op(op.op, transformXY(op.data[1], op.data[2], mat)
                     \o transformXY(op.data[3], op.data[4], mat))
    ELSE op

\* What _applyMatrixToDrawable does to one op: a move or lineTo is unpacked as
\* two numbers and a bcurveTo as six, and as many are written back.
TransformOp(op, mat) ==
    IF op.data = <<>> THEN op
    ELSE IF op.op \in {"move", "lineTo"}
    THEN Op(op.op, transformXY(op.data[1], op.data[2], mat))
    ELSE IF op.op = "bcurveTo"
    THEN Op(op.op, transformXY(op.data[1], op.data[2], mat)
                     \o transformXY(op.data[3], op.data[4], mat)
                     \o transformXY(op.data[5], op.data[6], mat))
    ELSE op

\* _applyMatrixToDrawable(drawable, matrix), as the Drawable it leaves.
applyMatrixToDrawable(d, mat) ==
    [d EXCEPT !.sets =
        [i \in DOMAIN d.sets |->
            IF d.sets[i].type \in {"textPath", "path", "fillPath", "fillSketch", "textOutline"}
            THEN OpSet(d.sets[i].type,
                       [j \in DOMAIN d.sets[i].ops |-> TransformOp(d.sets[i].ops[j], mat)])
            ELSE d.sets[i]]]

\* The points auto_fit reads from an op.
OpPoints(op) ==
    IF op.data = <<>> THEN {}
    ELSE IF op.op \in {"move", "lineTo"} THEN { <<op.data[1], op.data[2]>> }
    ELSE IF op.op = "bcurveTo"
    THEN { <<op.data[1], op.data[2]>>, <<op.data[3], op.data[4]>>, <<op.data[5], op.data[6]>> }
    ELSE {}
CallPoints(calls) ==
    UNION { UNION { UNION { OpPoints(calls[n].sets[i].ops[j]) : j \in DOMAIN calls[n].sets[i].ops } :
                    i \in DOMAIN calls[n].sets } :
            n \in DOMAIN calls }
Least(S) == CHOOSE x \in S : \A y \in S : x <= y
Greatest(S) == CHOOSE x \in S : \A y \in S : y <= x

\* What auto_fit does to one op with the scale and offsets it computed.
FitOp(op, scale, offset_x, offset_y) ==
    IF op.data = <<>> THEN op
    ELSE IF op.op \in {"move", "lineTo"}
    THEN Op(op.op, << Mul(scale, op.data[1]) + offset_x, Mul(scale, op.data[2]) + offset_y >>)
    ELSE IF op.op = "bcurveTo"
    THEN Op(op.op, << Mul(scale, op.data[1]) + offset_x, Mul(scale, op.data[2]) + offset_y,
                      Mul(scale, op.data[3]) + offset_x, Mul(scale, op.data[4]) + offset_y,
                      Mul(scale, op.data[5]) + offset_x, Mul(scale, op.data[6]) + offset_y >>)
    ELSE op

\* RoughCanvas.auto_fit(margin) on a canvas of w by h: the draw calls it
\* leaves, or the exception.  A bounding box flat in one direction only
\* divides by zero.  Op sets of type "text" do not occur in the shapes drawn.
auto_fit(calls, w, h, margin) ==
    LET pts == CallPoints(calls)
    IN IF calls = <<>> \/ pts = {} THEN [raised |-> "", calls |-> calls]
       ELSE LET min_x == Least({ pt[1] : pt \in pts })
                min_y == Least({ pt[2] : pt \in pts })
                bbox_width == Greatest({ pt[1] : pt \in pts }) - min_x
                bbox_height == Greatest({ pt[2] : pt \in pts }) - min_y
            IN IF bbox_width = 0 /\ bbox_height = 0 THEN [raised |-> "", calls |-> calls]
               ELSE IF bbox_width = 0 \/ bbox_height = 0
               THEN [raised |-> "ZeroDivisionError", calls |-> calls]
               ELSE LET scale == Min2(((w - 2 * margin) * Milli) \div bbox_width,
                                     ((h - 2 * margin) * Milli) \div bbox_height)
                        offset_x == margin - Mul(scale, min_x)
                        offset_y == margin - Mul(scale, min_y)
                    IN [raised |-> "",
                        calls |->
                          [n \in DOMAIN calls |->
                            [calls[n] EXCEPT !.sets =
                              [i \in DOMAIN calls[n].sets |->
                                OpSet(calls[n].sets[i].type,
                                      [j \in DOMAIN calls[n].sets[i].ops |->
                                         FitOp(calls[n].sets[i].ops[j], scale,
                                               offset_x, offset_y)])]]]]

\* RoughCanvas(width, height) of the canvas modelled.
CanvasWidth == 40 * Milli
CanvasHeight == 30 * Milli

MaxDrawCalls == 2
MaxTransforms == 1

\* ctx.translate, ctx.scale, ctx.rotate
CtxTransform(tm) ==
    /\ phase = "ready" /\ transforms < MaxTransforms
    /\ matrix' = matrixMultiply(matrix, tm)
    /\ transforms' = transforms + 1
    /\ UNCHANGED <<optVars, rndVars, py, drawVars, draw_calls, z_indexes, svg, pathVars>>
CtxTranslate == CtxTransform(TranslateMatrix(5 * Milli, 3 * Milli))
CtxScale == CtxTransform(ScaleMatrix(2 * Milli, Milli \div 2))
CtxRotate == CtxTransform(RotateMatrix(HalfPi))

\* ctx.resetTransform
CtxResetTransform ==
    /\ phase = "ready" /\ transforms > 0
    /\ matrix' = Identity
    /\ transforms' = 0
    /\ UNCHANGED <<optVars, rndVars, py, drawVars, draw_calls, z_indexes, svg, pathVars>>

\* A shape method of RoughCanvas called with z_index: the generator's
\* Drawable, moved by the current transform, appended to draw_calls with its
\* z_index and returned.  No more than limit draw calls are made.
GenerateAny(r, o, c) ==
    IF r.shape = "path" THEN genPath(PathTokens(r.args), o, c) ELSE Generate(r, o, c)
CanvasCallAt(r, z_index, limit) ==
    /\ phase = "ready" /\ Len(draw_calls) < limit
    /\ \E o \in {ResolveFor(r)} :
          /\ local' = Some(r.kw)
          /\ ro' = Some(o)
          /\ req' = Some(r)
          /\ \E g \in {GenerateAny(r, o, [py |-> py, g |-> None])} :
                /\ raised' = g.raised
                /\ py' = g.c.py
                /\ IF g.raised = ""
                   THEN \E d \in {applyMatrixToDrawable(g.d, matrix)} :
                           /\ drawable' = Some(d)
                           /\ draw_calls' = Append(draw_calls, d)
                           /\ z_indexes' = Append(z_indexes, z_index)
                   ELSE drawable' = None /\ UNCHANGED <<draw_calls, z_indexes, pathVars>>
    /\ UNCHANGED <<config, defaultOptions, phase, rndVars, fillVars, matrix, transforms, svg, pathVars>>

\* A shape method called without z_index (0).
CanvasCall(r) == CanvasCallAt(r, 0, MaxDrawCalls)

\* canvas.auto_fit(margin).  The Drawable the last shape method returned is
\* the object at the end of draw_calls, so it changes with it.
CanvasAutoFit ==
    \E margin \in {2 * Milli} :
        /\ phase = "ready"
        /\ \E f \in {auto_fit(draw_calls, CanvasWidth, CanvasHeight, margin)} :
              /\ draw_calls' = f.calls
              /\ raised' = f.raised
              /\ drawable' = IF drawable # None /\ f.calls # <<>>
                             THEN Some(f.calls[Len(f.calls)]) ELSE drawable
        /\ UNCHANGED <<optVars, rndVars, py, req, fillVars, matrix, transforms, z_indexes, svg, pathVars>>

\* The shapes drawn: a line, a rectangle with a solid fill, a polygon with a
\* hachure fill, an ellipse, a closed arc with a hachure fill, a curve with a
\* solid fill and a path with a cubic segment.
CanvasRequests ==
    { Request("line", << <<0, 0>>, <<20 * Milli, 10 * Milli>> >>, [seed |-> Some(7)]),
      Request("rectangle", << <<10 * Milli, 10 * Milli>>, <<10 * Milli, 10 * Milli>> >>,
              [fill |-> Some("red"), seed |-> Some(7), fillStyle |-> Some("solid")]),
      Request("polygon", << <<0, 0>>, <<12 * Milli, 0>>, <<0, 12 * Milli>> >>,
              [fill |-> Some("red"), seed |-> Some(7), hachureGap |-> Some(6 * Milli)]),
      Request("ellipse", EllipseArgs, [seed |-> Some(7)]),
      Request("arc", ArcArgs(TRUE),
              [fill |-> Some("red"), seed |-> Some(7), hachureGap |-> Some(6 * Milli)]),
      Request("curve", FilledCurveArgs,
              [fill |-> Some("red"), seed |-> Some(7), fillStyle |-> Some("solid")]),
      Request("path",
              << MoveGroup,
                 Group("C", <<10 * Milli, 20 * Milli, 20 * Milli, 20 * Milli, 20 * Milli, 10 * Milli>>),
                 Group("Z", <<>>) >>,
              [seed |-> Some(7)]) }

CanvasDraw == \E r \in CanvasRequests : CanvasCall(r)

NextCanvas ==
    \/ CtxTranslate \/ CtxScale \/ CtxRotate \/ CtxResetTransform
    \/ CanvasDraw \/ CanvasAutoFit

SpecCanvas == Init /\ [][NextCanvas]_vars

ArityOf(op) == IF op.op \in {"move", "lineTo"} THEN 2 ELSE IF op.op = "bcurveTo" THEN 6 ELSE 0 - 1
WellFormed(d) ==
    \A i \in DOMAIN d.sets : \A j \in DOMAIN d.sets[i].ops :
        Len(d.sets[i].ops[j].data) = ArityOf(d.sets[i].ops[j])

\* C20: every op of every op set of every Drawable, the one a shape method
\* returned and the ones kept in draw_calls, has 2 numbers when it is a move
\* or lineTo and 6 when it is a bcurveTo, also after context transforms and
\* auto_fit.
C20_OpArity ==
    /\ drawable # None => WellFormed(Val(drawable))
    /\ \A n \in DOMAIN draw_calls : WellFormed(draw_calls[n])

\* Two Drawables with curves, drawn under a transform and then fitted with a
\* margin of 2: their leftmost and topmost points are on the margin.
C20_Witness ==
    /\ Len(draw_calls) = 2
    /\ matrix # Identity
    /\ \E n \in DOMAIN draw_calls : \E i \in DOMAIN draw_calls[n].sets :
          \E j \in DOMAIN draw_calls[n].sets[i].ops : draw_calls[n].sets[i].ops[j].op = "bcurveTo"
    /\ Least({ pt[1] : pt \in CallPoints(draw_calls) }) = 2 * Milli
    /\ Least({ pt[2] : pt \in CallPoints(draw_calls) }) = 2 * Milli
    /\ \A pt \in CallPoints(draw_calls) : pt[1] <= CanvasWidth /\ pt[2] <= CanvasHeight

(***************************************************************************)
(* generator.py: opsToPath, toPaths; canvas.py: RoughCanvas.as_svg         *)
(***************************************************************************)

\* RoughGenerator.opsToPath(drawing, None): the path data, one command letter
\* with its numbers per op; an op of another kind is left out.
PathCommand(op) ==
    IF op.op = "move" THEN <<[nums |-> <<op.data[1], op.data[2]>>, cmd |-> "M"]>>
    ELSE IF op.op = "bcurveTo"
    THEN <<[nums |-> <<op.data[1], op.data[2], op.data[3], op.data[4], op.data[5], op.data[6]>>,
            cmd |-> "C"]>>
    ELSE IF op.op = "lineTo" THEN <<[nums |-> <<op.data[1], op.data[2]>>, cmd |-> "L"]>>
    ELSE <<>>
RECURSIVE opsToPath(_)
opsToPath(ops) ==
    IF ops = <<>> THEN <<>>
    ELSE IF Len(ops) = 1 THEN PathCommand(ops[1])
    ELSE opsToPath(SubSeq(ops, 1, Len(ops) \div 2))
           \o opsToPath(SubSeq(ops, Len(ops) \div 2 + 1, Len(ops)))

\* PathInfo(d, stroke, strokeWidth, fill)
PathInfo(d, stroke, strokeWidth, fill) ==
    [strokeWidth |-> strokeWidth, stroke |-> stroke, fill |-> fill, d |-> d]

\* RoughGenerator._fillSketchPath(drawing, o)
fillSketchPath(drawing, o) ==
    PathInfo(opsToPath(drawing.ops),
             IF Truthy(o.fill) THEN Val(o.fill) ELSE "none",
             IF OrElse(o.fillWeight, Milli) < 0
             THEN OrDefault(o.strokeWidth, 2 * Milli) \div 2
             ELSE OrElse(o.fillWeight, Milli),
             "none")

\* The PathInfo toPaths builds for one op set of type path, fillPath or
\* fillSketch.
PathInfoOf(drawing, o) ==
    CASE drawing.type = "path" ->
            PathInfo(opsToPath(drawing.ops), OrElse(o.stroke, "none"),
                     OrElse(o.strokeWidth, 2 * Milli), "")
      [] drawing.type = "fillPath" ->
            PathInfo(opsToPath(drawing.ops), "none", 0,
                     IF Truthy(o.fill) THEN Val(o.fill) ELSE "none")
      [] drawing.type = "fillSketch" -> fillSketchPath(drawing, o)

\* RoughGenerator.toPaths(drawable): one PathInfo per op set, in order.
toPaths(d) == [i \in DOMAIN d.sets |-> PathInfoOf(d.sets[i], d.options)]

\* sorted(self.draw_calls, key=z_index), as the positions in draw_calls:
\* Python's sort is stable, an entry goes behind the entries that are not
\* greater.
RECURSIVE InsertByZ(_, _, _)
InsertByZ(sorted, n, zs) ==
    IF sorted = <<>> THEN <<n>>
    ELSE IF zs[sorted[1]] <= zs[n] THEN <<sorted[1]>> \o InsertByZ(Tail(sorted), n, zs)
    ELSE <<n>> \o sorted
RECURSIVE SortedUpTo(_, _)
SortedUpTo(zs, n) == IF n = 0 THEN <<>> ELSE InsertByZ(SortedUpTo(zs, n - 1), n, zs)
\* The draw calls in the order they were made.
sorted_calls_Unsorted(zs) ==
    [n \in DOMAIN zs |-> n]

sorted_calls(zs) ==
    SortedUpTo(zs, Len(zs))

\* The <path> elements as_svg writes for the draw calls in the order given:
\* the PathInfos of each Drawable, with the position of its draw call.
RECURSIVE SvgElements(_, _)
SvgElements(order, calls) ==
    IF order = <<>> THEN <<>>
    ELSE [i \in DOMAIN calls[order[1]].sets |->
            [call |-> order[1], info |-> toPaths(calls[order[1]])[i]]]
           \o SvgElements(Tail(order), calls)

\* RoughCanvas.as_svg(width, height, auto_fit, auto_fit_margin) on a canvas
\* of w by h: the draw calls it leaves and the elements it returns, or the
\* exception of auto_fit.  auto_fit fits to the canvas, not to width and
\* height.  Fills and strokes are colours, never gradient lists.
as_svg(calls, zs, w, h, fit, margin) ==
    LET f == IF fit THEN auto_fit(calls, w, h, margin) ELSE [raised |-> "", calls |-> calls]
    IN IF f.raised # "" THEN [raised |-> f.raised, calls |-> calls, elements |-> <<>>]
       ELSE [raised |-> "", calls |-> f.calls,
             elements |-> SvgElements(sorted_calls(zs), f.calls)]

MaxExportCalls == 3

\* canvas.as_svg(width, height, auto_fit, auto_fit_margin)
CanvasAsSvg(width, height, fit, margin) ==
    /\ phase = "ready"
    /\ req' = Some(Request("as_svg", <<width, height, fit, margin>>, <<>>))
    /\ \E x \in {as_svg(draw_calls, z_indexes, CanvasWidth, CanvasHeight, fit, margin)} :
          /\ raised' = x.raised
          /\ draw_calls' = x.calls
          /\ svg' = IF x.raised = "" THEN Some(x.elements) ELSE None
          /\ drawable' = IF drawable # None /\ x.calls # <<>>
                         THEN Some(x.calls[Len(x.calls)]) ELSE drawable
    /\ UNCHANGED <<optVars, rndVars, py, fillVars, matrix, transforms, z_indexes, pathVars>>

\* The shapes exported: a line, a horizontal line without roughness and a
\* rectangle with a solid fill, each with z_index 0 or 1.
ExportRequests ==
    { Request("line", << <<0, 0>>, <<20 * Milli, 10 * Milli>> >>, [seed |-> Some(7)]),
      Request("line", << <<0, 0>>, <<20 * Milli, 0>> >>, [seed |-> Some(7), roughness |-> Some(0)]),
      Request("rectangle", << <<10 * Milli, 10 * Milli>>, <<10 * Milli, 10 * Milli>> >>,
              [fill |-> Some("red"), seed |-> Some(7), fillStyle |-> Some("solid")]) }

ExportDraw == \E r \in ExportRequests, z \in {0, 1} : CanvasCallAt(r, z, MaxExportCalls)
ExportAsSvg ==
    \E size \in { <<CanvasWidth, CanvasHeight>>, <<CanvasWidth \div 2, CanvasHeight \div 2>> },
       fit \in BOOLEAN :
        CanvasAsSvg(size[1], size[2], fit, 2 * Milli)

NextExport == ExportDraw \/ ExportAsSvg \/ CanvasAutoFit

SpecExport == Init /\ [][NextExport]_vars

\* C21 (as claimed): no operation of the library changes a Drawable that a
\* draw call has returned: the Drawables in draw_calls stay as they are.
C21_DrawableImmutable ==
    [][\A n \in DOMAIN draw_calls : draw_calls'[n] = draw_calls[n]]_vars

\* C22: the elements as_svg returns are in ascending z_index order, and
\* elements of equal z_index are in the order of their draw calls.
C22_AscendingZIndex ==
    svg # None =>
        \A a \in DOMAIN Val(svg), b \in DOMAIN Val(svg) :
            a < b =>
                \/ z_indexes[Val(svg)[a].call] < z_indexes[Val(svg)[b].call]
                \/ /\ z_indexes[Val(svg)[a].call] = z_indexes[Val(svg)[b].call]
                   /\ Val(svg)[a].call <= Val(svg)[b].call

\* Three shapes exported, the second drawn below the first and the third
\* level with the first: the output has the second, the first, the third.
C22_Witness ==
    /\ svg # None /\ Len(draw_calls) = 3
    /\ z_indexes = <<1, 0, 1>>
    /\ Val(svg)[1].call = 2
    /\ Val(svg)[Len(Val(svg))].call = 3
    /\ \E a \in DOMAIN Val(svg) : Val(svg)[a].call = 1

\* C23 (as claimed): after as_svg(width, height, auto_fit=True,
\* auto_fit_margin=m) on a canvas with a drawn shape the export has
\* completed and every coordinate of every op lies in [m, width - m] by
\* [m, height - m].
C23_FittedIntoExport ==
    (req # None /\ Val(req).shape = "as_svg" /\ Val(req).args[3] /\ draw_calls # <<>>) =>
        /\ raised = ""
        /\ \A pt \in CallPoints(draw_calls) :
              /\ Val(req).args[4] <= pt[1] /\ pt[1] <= Val(req).args[1] - Val(req).args[4]
              /\ Val(req).args[4] <= pt[2] /\ pt[2] <= Val(req).args[2] - Val(req).args[4]

(***************************************************************************)
(* renderer.py: the angular sweep loops of arcOps and patternFillArc       *)
(***************************************************************************)

\* The loop "while angle <= stp: ...; angle += inc" as it is entered.
Sweep(loop, start, stop, a, inc, angle) ==
    [angle |-> angle, inc |-> inc, start |-> start, stop |-> stop, strt |-> a[1],
     stp |-> a[2], loop |-> loop, steps |-> 0, done |-> FALSE]

\* The sweep of the first arcOps call of arc(x, y, width, height, start,
\* stop, ...): arcInc of arc, and radOffset, the start angle moved by
\* offsetOpt(0.1, o).
ArcOpsSweep(width, height, start, stop, o, c) ==
    The({ The({ The({
        Sweep("arcOps", start, stop, a, arcInc, a[1] + offsetOpt(100, o, Milli, r0.num)) :
              r0 \in {randomFloat(o, r.c)} }) :
          arcInc \in {Min2((TwoPi \div OrElse(o.curveStepCount, 9)) \div 2,
                           (a[2] - a[1]) \div 2)} }) :
        r \in {ArcRadii(width, height, o, c)}, a \in {ArcAngles(start, stop)} })

\* The sweep of patternFillArc(x, y, width, height, start, stop, o).
PatternFillArcSweep(start, stop, o) ==
    The({ Sweep("patternFillArc", start, stop, a,
                (a[2] - a[1]) \div OrElse(o.curveStepCount, 9), a[1]) :
            a \in {ArcAngles(start, stop)} })

MaxSweepSteps == 12

\* arc(...) up to the sweep loop of its first pass.
EnterArcOps(r) ==
    /\ phase = "ready"
    /\ \E o \in {ResolveFor(r)} :
          /\ local' = Some(r.kw)
          /\ ro' = Some(o)
          /\ req' = Some(r)
          /\ sweep' = Some(ArcOpsSweep(r.args[2][1], r.args[2][2], r.args[3][1], r.args[3][2],
                                       o, [py |-> py, g |-> None]))
    /\ UNCHANGED <<config, defaultOptions, phase, rndVars, py, drawable, raised, fillVars,
                   canvasVars, absolute>>

\* patternFillArc(...) up to its sweep loop.
EnterPatternFillArc(r) ==
    /\ phase = "ready"
    /\ \E o \in {ResolveFor(r)} :
          /\ local' = Some(r.kw)
          /\ ro' = Some(o)
          /\ req' = Some(r)
          /\ sweep' = Some(PatternFillArcSweep(r.args[3][1], r.args[3][2], o))
    /\ UNCHANGED <<config, defaultOptions, phase, rndVars, py, drawable, raised, fillVars,
                   canvasVars, absolute>>

\* One turn of the loop: the test holds, a point is added and the angle
\* advances by the increment.
SweepStep ==
    /\ sweep # None /\ ~Val(sweep).done
    /\ Val(sweep).angle <= Val(sweep).stp
    /\ Val(sweep).steps < MaxSweepSteps
    /\ sweep' = Some([Val(sweep) EXCEPT !.angle = @ + Val(sweep).inc, !.steps = @ + 1])
    /\ UNCHANGED <<optVars, rndVars, py, drawVars, canvasVars, absolute>>

\* The test fails: the loop is left.
SweepExit ==
    /\ sweep # None /\ ~Val(sweep).done
    /\ Val(sweep).angle > Val(sweep).stp
    /\ sweep' = Some([Val(sweep) EXCEPT !.done = TRUE])
    /\ UNCHANGED <<optVars, rndVars, py, drawVars, canvasVars, absolute>>

\* Start and stop angles: negative, within a turn, beyond a turn, equal, and
\* in falling order.
SweepAngles ==
    { <<0, HalfPi>>, <<0 - Milli, Milli>>, <<TwoPi - Milli, TwoPi + Milli>>,
      <<7 * Milli, 8 * Milli>>, <<0, 7 * Milli>>, <<Milli, Milli>>, <<2 * Milli, Milli>>,
      <<0 - 7 * Milli, 0 - 5 * Milli>> }
SweepKw == [seed : {Some(7), Some(8)}, roughness : {None, Some(0)}]
SweepArgs(a) == << <<10 * Milli, 10 * Milli>>, <<12 * Milli, 8 * Milli>>, a, TRUE >>

SweepArcOps == \E a \in SweepAngles, k \in SweepKw : EnterArcOps(Request("arc", SweepArgs(a), k))
SweepPatternFillArc ==
    \E a \in SweepAngles, k \in SweepKw : EnterPatternFillArc(Request("arc", SweepArgs(a), k))

NextArc == SweepArcOps \/ SweepPatternFillArc \/ SweepStep \/ SweepExit

SpecArc == Init /\ [][NextArc]_vars

C26_SweepAdvances ==
    (sweep # None /\ ~Val(sweep).done /\ Val(sweep).angle <= Val(sweep).stp) =>
        Val(sweep).inc > 0

(***************************************************************************)
(* Ellipses drawn with roughness 0                                         *)
(***************************************************************************)

\* ellipse(x, y, width, height, Options(...)): centres, widths and heights,
\* circles included.
FlatEllipseArgs ==
    { << c0, <<width, height>> >> :
        c0 \in { <<10 * Milli, 10 * Milli>>, <<0, 5 * Milli>> },
        width \in { 8 * Milli, 12 * Milli, 16 * Milli },
        height \in { 6 * Milli, 8 * Milli, 12 * Milli } }
\* roughness 0 with disableMultiStroke unset, set and cleared.
FlatEllipseKw ==
    [seed : {Some(7), Some(8)}, roughness : {Some(0)}]
    \cup [seed : {Some(7), Some(8)}, roughness : {Some(0)},
          disableMultiStroke : {Some(TRUE), Some(FALSE)}]
\* The same ellipses drawn rough.
RoughEllipseKw ==
    [seed : {Some(7)}, roughness : {Some(Milli)}, disableMultiStroke : {Some(TRUE), Some(FALSE)}]

EllipseFlat == \E a \in FlatEllipseArgs, k \in FlatEllipseKw : Call(Request("ellipse", a, k))
EllipseRough ==
    \E a \in FlatEllipseArgs, k \in RoughEllipseKw :
        a[1] = <<10 * Milli, 10 * Milli>> /\ Call(Request("ellipse", a, k))

NextEllipse == EllipseFlat \/ EllipseRough

SpecEllipse == Init /\ [][NextEllipse]_vars

\* The points of the ideal ellipse with centre c0 and half-axes rx, ry, at
\* every angle of a full turn.
IdealEllipse(c0, rx, ry) ==
    { EllipsePoint(c0[1], c0[2], rx, ry, Milli, a) : a \in 0 .. TwoPi }

\* C25: with roughness 0 the outline of an ellipse is one pass, a single move
\* followed by bcurveTo ops only, whether or not disableMultiStroke is set,
\* and every point the pass goes through (the target of the move and of each
\* bcurveTo) is a point of the ideal ellipse with the requested centre and
\* half-axes.
C25_FlatEllipseOnePass ==
    (drawable # None /\ Val(req).shape = "ellipse" /\ Val(ro).roughness = Some(0)) =>
        LET sets == Val(drawable).sets
            ideal == IdealEllipse(Val(req).args[1], Val(req).args[2][1] \div 2,
                                  Val(req).args[2][2] \div 2)
        IN /\ Len(sets) = 1 /\ sets[1].type = "path"
           /\ Len(sets[1].ops) > 1
           /\ sets[1].ops[1].op = "move"
           /\ \A i \in 2 .. Len(sets[1].ops) : sets[1].ops[i].op = "bcurveTo"
           /\ \A i \in 1 .. Len(sets[1].ops) : OpTarget(sets[1].ops[i]) \in ideal

\* An ellipse drawn with roughness 0 and multi-stroke not disabled.
C25_Witness ==
    /\ drawable # None /\ Val(req).shape = "ellipse"
    /\ Val(ro).roughness = Some(0) /\ Val(ro).disableMultiStroke = Some(FALSE)
    /\ Len(Val(drawable).sets[1].ops) > 30

(***************************************************************************)
(* Curves through 1 to 5 points                                            *)
(***************************************************************************)

\* Point lists of 5 points; curve is called with their first N points.
CurveBases ==
    { << <<0, 0>>, <<10 * Milli, 6 * Milli>>, <<20 * Milli, 0>>,
         <<30 * Milli, 6 * Milli>>, <<24 * Milli, 12 * Milli>> >>,
      << <<0, 0>>, <<0, 10 * Milli>>, <<10 * Milli, 10 * Milli>>,
         <<10 * Milli, 0>>, <<5 * Milli, 5 * Milli>> >>,
      << <<5 * Milli, 5 * Milli>>, <<6 * Milli, 5 * Milli>>, <<7 * Milli, 9 * Milli>>,
         <<4 * Milli, 2 * Milli>>, <<0, 0>> >> }
MaxCurvePoints == 5
CurvePointLists ==
    { SubSeq(b, 1, Min2(k, Len(b))) : b \in CurveBases, k \in 1 .. MaxCurvePoints }
CurveCountKw ==
    [seed : {Some(7), Some(8)}, roughness : {None, Some(0)}]
    \cup [seed : {Some(7), Some(8)}, roughness : {None, Some(0)},
          disableMultiStroke : {Some(TRUE)}]

CurveOfCount == \E a \in CurvePointLists, k \in CurveCountKw : Call(Request("curve", a, k))

NextCurve == CurveOfCount

SpecCurve == Init /\ [][NextCurve]_vars

\* The number of passes of an outline: 1 with disableMultiStroke, else 2.
PassesOf(o) == IF Val(o.disableMultiStroke) THEN 1 ELSE 2

\* C30 (as claimed): a curve through N points is sketched by the Line
\* algorithm for N = 2, by the 3-point bridge (one move and one bcurveTo per
\* pass) for N = 3, and by piecewise Catmull-Rom through the list with its
\* first and last point duplicated (one move and N - 1 bcurveTo per pass) for
\* N > 3.
C30_AlgorithmByCount ==
    (drawable # None /\ Val(req).shape = "curve") =>
        LET pts == Val(req).args
            ops == Val(drawable).sets[1].ops
        IN /\ Len(pts) = 2 =>
                 SubSeq(ops, 1, 2) = lineOps(pts[1][1], pts[1][2], pts[2][1], pts[2][2],
                                             Val(ro), TRUE, [py |-> py, g |-> None]).ops
           /\ Len(pts) = 3 => Len(ops) = 2 * PassesOf(Val(ro))
           /\ Len(pts) > 3 => Len(ops) = Len(pts) * PassesOf(Val(ro))

\* C30 (amended): a curve through N >= 2 points is sketched by piecewise
\* Catmull-Rom whatever N is: each pass is one move followed by N - 1
\* bcurveTo, and with roughness 0 the first pass is the Catmull-Rom curve
\* through the list with its first and last point duplicated.  A curve
\* through a single point is one move and one bcurveTo per pass.
C30_CatmullRomForEveryCount ==
    (drawable # None /\ Val(req).shape = "curve") =>
        LET pts == Val(req).args
            ops == Val(drawable).sets[1].ops
            dup == <<pts[1]>> \o pts \o <<pts[Len(pts)]>>
            per == IF Len(pts) = 1 THEN 2 ELSE Len(pts)
        IN /\ Len(ops) = per * PassesOf(Val(ro))
           /\ \A i \in 1 .. Len(ops) :
                 ops[i].op = (IF i % per = 1 THEN "move" ELSE "bcurveTo")
           /\ (Len(pts) >= 2 /\ Val(ro).roughness = Some(0)) =>
                 SubSeq(ops, 1, per)
                   = <<Op("move", pts[1])>> \o
                     [i \in 1 .. Len(pts) - 1 |->
                        curveSegment(dup, i + 1, Milli - OrElse(Val(ro).curveTightness, 0))]

\* A curve through 3 points drawn in one pass of one move and two bcurveTo.
C30_Witness ==
    /\ drawable # None /\ Val(req).shape = "curve"
    /\ Len(Val(req).args) = 3 /\ Val(Val(ro).disableMultiStroke)
    /\ Len(Val(drawable).sets[1].ops) = 3

(***************************************************************************)
(* toAbsolute on paths written with relative commands                      *)
(***************************************************************************)

\* The moveto that opens a path: relative with one pair, relative with two
\* pairs (the second an implicit lineto), absolute.
OpeningMoves ==
    { Group("m", <<Milli, Milli>>), Group("m", <<Milli, Milli, 2 * Milli, 2 * Milli>>),
      MoveGroup }
\* One group of every relative command toAbsolute converts.
RelativeGroups ==
    { Group("l", <<2 * Milli, 2 * Milli>>), Group("h", <<2 * Milli>>), Group("v", <<3 * Milli>>),
      Group("c", <<Milli, Milli, 2 * Milli, 2 * Milli, 3 * Milli, 3 * Milli>>),
      Group("q", <<Milli, Milli, 2 * Milli, 2 * Milli>>),
      Group("a", <<5 * Milli, 5 * Milli, 0, 0, Milli, 2 * Milli, 2 * Milli>>),
      Group("z", <<>>) }
RelativePaths == { <<m0, g1, g2>> : m0 \in OpeningMoves, g1 \in RelativeGroups, g2 \in RelativeGroups }

\* toAbsolute(parsePathCommands(path)) for the path string of the groups.
NormalisePath(groups) == toAbsolute(parsePathCommands(PathTokens(groups)).segs)

\* One call toAbsolute(parsePathCommands(path)).
Normalise(groups) ==
    /\ phase = "ready"
    /\ req' = Some(Request("toAbsolute", groups, <<>>))
    /\ absolute' = Some(NormalisePath(groups))
    /\ UNCHANGED <<optVars, rndVars, py, drawable, raised, fillVars, canvasVars, sweep>>

NormaliseRelative == \E p \in RelativePaths : Normalise(p)

NextAbsolute == NormaliseRelative

SpecAbsolute == Init /\ [][NextAbsolute]_vars

\* The absolute command that stands for group g of an SVG path when the
\* current point is current and the subpath began at start, with the current
\* point and the subpath start after it.  The pairs of a moveto after the
\* first are implicit linetos: the subpath starts at the first pair.
AbsoluteGroup(g, current, start) ==
    LET up == Upper(g.cmd)
        base == IF g.cmd \in LowerCase THEN current ELSE <<0, 0>>
        at(k) == g.nums[k] + base[2 - (k % 2)]
    IN CASE up = "Z" -> [g |-> Group("Z", <<>>), start |-> start, current |-> start]
         [] up = "M" /\ Len(g.nums) = 4 ->
              LET p2 == IF g.cmd \in LowerCase
                        THEN <<at(1) + g.nums[3], at(2) + g.nums[4]>>
                        ELSE <<g.nums[3], g.nums[4]>>
              IN [g |-> Group("M", <<at(1), at(2)>> \o p2), start |-> <<at(1), at(2)>>,
                  current |-> p2]
         [] up = "M" ->
              [g |-> Group("M", <<at(1), at(2)>>), start |-> <<at(1), at(2)>>,
               current |-> <<at(1), at(2)>>]
         [] up = "H" ->
              [g |-> Group("H", <<g.nums[1] + base[1]>>),
               start |-> start, current |-> <<g.nums[1] + base[1], current[2]>>]
         [] up = "V" ->
              [g |-> Group("V", <<g.nums[1] + base[2]>>),
               start |-> start, current |-> <<current[1], g.nums[1] + base[2]>>]
         [] up = "A" ->
              [g |-> Group("A", SubSeq(g.nums, 1, 5) \o <<g.nums[6] + base[1], g.nums[7] + base[2]>>),
               start |-> start, current |-> <<g.nums[6] + base[1], g.nums[7] + base[2]>>]
         [] OTHER ->
              [g |-> Group(up, [k \in 1 .. Len(g.nums) |-> at(k)]),
               start |-> start, current |-> <<at(Len(g.nums) - 1), at(Len(g.nums))>>]

\* The same path written with absolute commands only.
RECURSIVE AbsolutePathFrom(_, _, _, _)
AbsolutePathFrom(groups, i, current, start) ==
    IF i > Len(groups) THEN <<>>
    ELSE The({ <<a.g>> \o AbsolutePathFrom(groups, i + 1, a.current, a.start) :
                 a \in {AbsoluteGroup(groups[i], current, start)} })
AbsolutePath(groups) == AbsolutePathFrom(groups, 1, <<0, 0>>, <<0, 0>>)

\* C28 (as claimed): normalising a path written with relative commands gives
\* the segment list of the same path written with absolute commands; after a
\* closepath the current point is the start of the subpath just closed.
C28_RelativeAsAbsolute ==
    absolute # None => Val(absolute) = NormalisePath(AbsolutePath(Val(req).args))

=============================================================================
